---- MODULE Spec2Model ----
(***************************************************************************)
(* A model of the f-image-go client library: the shared HTTP transport     *)
(* (Client.request, Client.requestWithQuery, Client.uploadMultipart), the  *)
(* error classifier (parseAPIError and the Is... predicates) and the       *)
(* resource services (Files, Albums, Share, Tags, Trash) that call them.   *)
(*                                                                         *)
(* One invocation of a public method is a run                              *)
(*   idle -> [copying ->] inflight -> reading -> done -> idle              *)
(* whose steps are separated by the places where the Go code blocks: the   *)
(* reads of the caller's io.Reader (io.Copy), HTTPClient.Do and            *)
(* io.ReadAll.  The server, the network, the caller's reader and the       *)
(* caller's context are the environment.                                   *)
(*                                                                         *)
(* Byte strings are modelled by what they denote: Raw(s) is the text s     *)
(* (not a JSON document), Doc(v) is the serialisation of the JSON value v. *)
(***************************************************************************)
EXTENDS Integers, Sequences, FiniteSets, TLC

(***************************************************************************)
(* Bounds of the model.                                                    *)
(***************************************************************************)
\* identifiers (file, album, share, tag ids) range over 0..MaxID
MaxID == 1
\* the caller's upload stream holds at most MaxRead bytes
MaxRead == 3

(***************************************************************************)
(* Program constants.                                                      *)
(***************************************************************************)
DefaultBaseURL == "https://f-image.com"
\* seconds
DefaultTimeout == 30
Version == "1.0.0"

(***************************************************************************)
(* Go values: nil and pointers / slices.                                   *)
(***************************************************************************)
Nil == [null |-> TRUE]
Ptr(v) == [null |-> FALSE, v |-> v]

(***************************************************************************)
(* JSON values and byte strings.                                           *)
(***************************************************************************)
JNull == [t |-> "null"]
JStr(s) == [t |-> "str", s |-> s]
JNum(n) == [t |-> "num", n |-> n]
JBool(b) == [t |-> "bool", b |-> b]
JArr(items) == [t |-> "arr", a |-> items]
JObj(f) == [t |-> "obj", f |-> f]
EmptyObj == JObj([k \in {} |-> JNull])

Raw(s) == [t |-> "raw", s |-> s]
Doc(v) == [t |-> "json", v |-> v]
EmptyBody == Raw("")

\* len(b) for a byte string: only the empty text has length 0
IsEmptyBytes(b) == b = EmptyBody

(***************************************************************************)
(* Destination types of json.Unmarshal, as type descriptors.               *)
(***************************************************************************)
TString == [k |-> "string"]
TInt == [k |-> "int"]
TBool == [k |-> "bool"]
TPtr(name) == [k |-> "ptr", of |-> name]
TSliceOf(name) == [k |-> "slice", of |-> name]
TStruct(name) == [k |-> "struct", of |-> name]

\* the fields (by JSON key) of the struct types of types.go
StructFields(name) ==
  CASE name = "Album" ->
         [id |-> TInt, name |-> TString, description |-> TString,
          file_count |-> TInt, created_at |-> TString]
    [] name = "AlbumsListResponse" -> [albums |-> TSliceOf("Album")]
    [] name = "Tag" ->
         [id |-> TInt, name |-> TString, color |-> TString, file_count |-> TInt]
    [] name = "MessageResponse" -> [message |-> TString, info |-> TString]
    [] name = "DeleteResult" ->
         [success |-> TBool, message |-> TString, deleted_count |-> TInt,
          failed_count |-> TInt, failed_deletions |-> TSliceOf("FailedDeletion")]
    [] name = "FailedDeletion" ->
         [file_id |-> TInt, file_name |-> TString, reason |-> TString,
          share_links |-> TSliceOf("ShareLink")]
    [] name = "BatchDeleteResponse" ->
         [deleted |-> TInt, failed |-> TInt, message |-> TString]
    [] name = "RestoreResponse" ->
         [message |-> TString, restored |-> TInt, failed |-> TInt]
    [] name = "UploadResponse" ->
         [success |-> TBool, status |-> TInt, data |-> TPtr("UploadData")]
    [] name = "UploadData" ->
         [id |-> TInt, url |-> TString, medium_url |-> TPtr("string"),
          thumbnail_url |-> TPtr("string"), original_name |-> TString,
          description |-> TString, size |-> TInt, width |-> TInt,
          height |-> TInt, mime_type |-> TString, is_flash |-> TBool]
    [] name = "File" ->
         [id |-> TInt, album_id |-> TPtr("int"), album_name |-> TPtr("string"),
          original_name |-> TString, description |-> TString, url |-> TString,
          medium_url |-> TPtr("string"), thumbnail_url |-> TPtr("string"),
          size |-> TInt, width |-> TInt, height |-> TInt, mime_type |-> TString,
          created_at |-> TString, deleted_at |-> TPtr("string")]
    [] name = "FilesListResponse" ->
         [files |-> TSliceOf("File"), total |-> TInt, page |-> TInt,
          limit |-> TInt, album_id |-> TPtr("int"), query |-> TString]
    [] name = "TrashListResponse" ->
         [files |-> TSliceOf("File"), total |-> TInt, page |-> TInt, limit |-> TInt]
    [] name = "ShareLink" ->
         [id |-> TInt, token |-> TString, share_url |-> TString,
          file_id |-> TPtr("int"), album_id |-> TPtr("int"),
          file_name |-> TPtr("string"), album_name |-> TPtr("string"),
          has_password |-> TBool, expires_at |-> TPtr("string"),
          max_views |-> TPtr("int"), view_count |-> TInt, is_active |-> TBool,
          created_at |-> TString]
    [] name = "SharesListResponse" ->
         [shares |-> TSliceOf("ShareLink"), total |-> TInt, page |-> TInt,
          limit |-> TInt]
    [] name = "SharedContent" ->
         [type |-> TString, file |-> TPtr("File"), album |-> TPtr("Album"),
          files |-> TSliceOf("File"), requires_password |-> TBool]
    [] name = "errResp" -> [error |-> TString, message |-> TString]

\* the type a name stands for
TypeOf(name) ==
  CASE name = "string" -> TString
    [] name = "int" -> TInt
    [] name = "bool" -> TBool
    [] name = "TagsListResponse" -> TSliceOf("Tag")
    [] OTHER -> TStruct(name)

\* the zero value of a Go type
RECURSIVE Zero(_)
Zero(ty) ==
  CASE ty.k = "string" -> ""
    [] ty.k = "int" -> 0
    [] ty.k = "bool" -> FALSE
    [] ty.k = "ptr" -> Nil
    [] ty.k = "slice" -> Nil
    [] ty.k = "struct" ->
         [f \in DOMAIN StructFields(ty.of) |-> Zero(StructFields(ty.of)[f])]

(***************************************************************************)
(* encoding/json's Unmarshal on a parsed document: Decode(ty, v, cur) is   *)
(* the value left in a destination of type ty that held cur, and whether   *)
(* no error was reported.  A JSON null leaves scalars and structs alone    *)
(* and sets pointers and slices to nil; a value of the wrong JSON type is  *)
(* an error that leaves the field alone while decoding goes on; unknown    *)
(* keys are skipped.  (time.Time fields are kept as strings.)              *)
(***************************************************************************)
RECURSIVE Decode(_, _, _)
Decode(ty, v, cur) ==
  LET bad == [val |-> cur, ok |-> FALSE] IN
  IF v.t = "null"
  THEN [val |-> IF ty.k \in {"ptr", "slice"} THEN Nil ELSE cur, ok |-> TRUE]
  ELSE CASE ty.k = "string" ->
              IF v.t = "str" THEN [val |-> v.s, ok |-> TRUE] ELSE bad
         [] ty.k = "int" ->
              IF v.t = "num" THEN [val |-> v.n, ok |-> TRUE] ELSE bad
         [] ty.k = "bool" ->
              IF v.t = "bool" THEN [val |-> v.b, ok |-> TRUE] ELSE bad
         [] ty.k = "ptr" ->
              LET inner == Decode(TypeOf(ty.of), v,
                                  IF cur = Nil THEN Zero(TypeOf(ty.of)) ELSE cur.v)
              IN [val |-> Ptr(inner.val), ok |-> inner.ok]
         [] ty.k = "slice" ->
              IF v.t = "arr"
              THEN LET el(i) == Decode(TypeOf(ty.of), v.a[i], Zero(TypeOf(ty.of)))
                   IN [val |-> Ptr([i \in 1..Len(v.a) |-> el(i).val]),
                       ok |-> \A i \in 1..Len(v.a) : el(i).ok]
              ELSE bad
         [] ty.k = "struct" ->
              IF v.t = "obj"
              THEN LET fs == StructFields(ty.of)
                       d(f) == IF f \in DOMAIN v.f
                               THEN Decode(fs[f], v.f[f], cur[f])
                               ELSE [val |-> cur[f], ok |-> TRUE]
                   IN [val |-> [f \in DOMAIN fs |-> d(f).val],
                       ok |-> \A f \in DOMAIN fs : d(f).ok]
              ELSE bad

\* json.Unmarshal(data, &dest): bytes that are no JSON document (the empty
\* input included) are a syntax error and leave dest untouched
Unmarshal(data, ty, cur) ==
  IF data.t = "raw" THEN [val |-> cur, ok |-> FALSE] ELSE Decode(ty, data.v, cur)

(***************************************************************************)
(* Errors.                                                                 *)
(***************************************************************************)
NoErr == [kind |-> "nil"]
\* fmt.Errorf(what ...): a local (construction or transport) error
LocalErr(what) == [kind |-> "local", what |-> what]
\* &APIError{StatusCode, Message}; Message is a byte string
APIError(code, msg) == [kind |-> "api", StatusCode |-> code, Message |-> msg]
\* the package's sentinel errors (errors.New)
Sentinel(name) == [kind |-> "sentinel", name |-> name]

\* net/http.StatusText: "" for a code it does not know
StatusText(code) ==
  CASE code = 200 -> "OK"
    [] code = 204 -> "No Content"
    [] code = 300 -> "Multiple Choices"
    [] code = 400 -> "Bad Request"
    [] code = 401 -> "Unauthorized"
    [] code = 402 -> "Payment Required"
    [] code = 403 -> "Forbidden"
    [] code = 404 -> "Not Found"
    [] code = 413 -> "Request Entity Too Large"
    [] code = 500 -> "Internal Server Error"
    [] OTHER -> ""

\* mutant: the message field is preferred to the error field
parseAPIError_MessageFirst(statusCode, body) ==
  LET r == Unmarshal(body, TStruct("errResp"), Zero(TStruct("errResp")))
      m1 == IF r.val.message = "" THEN r.val.error ELSE r.val.message
      msg == IF m1 = "" THEN StatusText(statusCode) ELSE m1
  IN IF ~r.ok THEN APIError(statusCode, body) ELSE APIError(statusCode, Raw(msg))

\* mutant: a body that does not parse yields the status text
parseAPIError_StatusTextOnFailure(statusCode, body) ==
  LET r == Unmarshal(body, TStruct("errResp"), Zero(TStruct("errResp")))
      m1 == IF r.val.error = "" THEN r.val.message ELSE r.val.error
      msg == IF m1 = "" \/ ~r.ok THEN StatusText(statusCode) ELSE m1
  IN APIError(statusCode, Raw(msg))

parseAPIError(statusCode, body) ==
  LET r == Unmarshal(body, TStruct("errResp"), Zero(TStruct("errResp")))
      m1 == IF r.val.error = "" THEN r.val.message ELSE r.val.error
      msg == IF m1 = "" THEN StatusText(statusCode) ELSE m1
  IN IF ~r.ok THEN APIError(statusCode, body) ELSE APIError(statusCode, Raw(msg))

\* mutant: every client error (4xx) is taken for "not found"
IsNotFound_Any4xx(err) ==
  IF err.kind = "api"
  THEN err.StatusCode >= 400 /\ err.StatusCode < 500
  ELSE err = Sentinel("ErrNotFound")

\* errors.As(err, &apiErr) / errors.Is(err, sentinel)
IsNotFound(err) ==
  IF err.kind = "api" THEN err.StatusCode = 404 ELSE err = Sentinel("ErrNotFound")

IsUnauthorized(err) ==
  IF err.kind = "api" THEN err.StatusCode = 401 ELSE err = Sentinel("ErrUnauthorized")

IsForbidden(err) ==
  IF err.kind = "api" THEN err.StatusCode = 403 ELSE err = Sentinel("ErrForbidden")

IsBadRequest(err) ==
  IF err.kind = "api" THEN err.StatusCode = 400 ELSE err = Sentinel("ErrBadRequest")

\* mutant: 413 is not matched
IsQuotaExceeded_Only402(err) ==
  IF err.kind = "api" THEN err.StatusCode = 402 ELSE err = Sentinel("ErrQuotaExceeded")

IsQuotaExceeded(err) ==
  IF err.kind = "api"
  THEN err.StatusCode = 402 \/ err.StatusCode = 413
  ELSE err = Sentinel("ErrQuotaExceeded")

(***************************************************************************)
(* The inputs the callers, the server and the network are drawn from.      *)
(***************************************************************************)
Ids == 0..MaxID
OptIds == {Nil} \cup {Ptr(i) : i \in Ids}
IdLists == {Nil, Ptr(<<>>), Ptr(<<1>>)}
Names == {"", "Vacation Photos 2024"}
Descriptions == {"", "Trip"}
Colors == {"", "#4CAF50"}
Passwords == {"", "secret123"}
ShareTokens == {"", "abc123token"}
Queries == {"", "sun set"}
ImageURLs == {"", "https://example.com/image.jpg"}
Filenames == {"", "a.jpg"}
\* (Page, Limit) pairs of the list options
PagePairs == {<<0, 0>>, <<2, 0>>, <<0, 5>>, <<2, 5>>, <<-1, -1>>}
Ctxs == {"active", "cancelled"}

\* what the caller's io.Reader does once its bytes are read: io.EOF, an
\* error, or a Read that never returns (a pipe nobody writes to)
ReaderEnds == {"eof", "err", "block"}
Readers == {[data |-> [i \in 1..n |-> i], end |-> e] : n \in 0..MaxRead, e \in ReaderEnds}
NoReader == [data |-> <<>>, end |-> "eof"]

\* the status codes and the bodies the server answers with
Statuses == {199, 200, 299, 300, 400, 401, 402, 403, 404, 413, 500}
Obj1(k, v) == JObj([x \in {k} |-> v])
Obj2(k1, v1, k2, v2) == JObj([x \in {k1, k2} |-> IF x = k1 THEN v1 ELSE v2])
\* a batch answer that reports one item done and two failed, with the keys
\* of BatchDeleteResponse, RestoreResponse and DeleteResult
BatchReport ==
  Doc(JObj([k \in {"success", "message", "deleted", "restored", "failed",
                   "deleted_count", "failed_count"} |->
              CASE k = "success" -> JBool(FALSE)
                [] k = "message" -> JStr("2 items failed")
                [] k \in {"deleted", "restored", "deleted_count"} -> JNum(1)
                [] OTHER -> JNum(2)]))
\* an object whose id is a JSON string where the types of types.go have int64
StringIdBody == Doc(Obj2("name", JStr("Nature"), "id", JStr("7")))
Bodies ==
  { EmptyBody,
    StringIdBody,
    Raw("<html>gateway error</html>"),
    Doc(JNull),
    Doc(EmptyObj),
    Doc(JArr(<<>>)),
    Doc(Obj1("error", JStr("not found"))),
    Doc(Obj1("message", JStr("quota"))),
    Doc(Obj2("error", JStr(""), "message", JStr("quota"))),
    Doc(Obj2("error", JStr("boom"), "message", JStr("quota"))),
    Doc(Obj2("error", JNum(7), "message", JStr("quota"))),
    Doc(Obj2("name", JStr("Vacation Photos 2024"), "description", JStr("Trip"))),
    Doc(Obj1("albums", JArr(<<Obj1("name", JStr("Vacation Photos 2024"))>>))),
    Doc(JArr(<<Obj1("name", JStr("Nature"))>>)),
    BatchReport,
    Doc(Obj2("success", JBool(TRUE), "data", Obj1("url", JStr("https://i.f-image.com/x"))))
  }

(***************************************************************************)
(* strconv.Itoa / fmt.Sprintf("%d"), url.QueryEscape, url.Values.Encode.   *)
(***************************************************************************)
Digit(d) ==
  CASE d = 0 -> "0" [] d = 1 -> "1" [] d = 2 -> "2" [] d = 3 -> "3" [] d = 4 -> "4"
    [] d = 5 -> "5" [] d = 6 -> "6" [] d = 7 -> "7" [] d = 8 -> "8" [] d = 9 -> "9"

RECURSIVE Itoa(_)
Itoa(n) ==
  IF n < 0 THEN "-" \o Itoa(0 - n)
  ELSE IF n < 10 THEN Digit(n)
  ELSE Itoa(n \div 10) \o Digit(n % 10)

\* url.QueryEscape: a space becomes "+"; the other strings of the model hold
\* unreserved characters only
QueryEscape(s) == IF s = "sun set" THEN "sun+set" ELSE s

\* url.Values with one value per key (every caller uses Set)
NoQuery == [k \in {} |-> ""]
QuerySet(q, k, v) == [x \in DOMAIN q \cup {k} |-> IF x = k THEN v ELSE q[x]]
\* the keys any caller sets, in the sorted order Encode writes them
QueryKeyOrder == <<"album_id", "limit", "page", "q">>
RECURSIVE EncodeFrom(_, _, _)
EncodeFrom(q, i, first) ==
  IF i > Len(QueryKeyOrder) THEN ""
  ELSE LET k == QueryKeyOrder[i] IN
       IF k \in DOMAIN q
       THEN (IF first THEN "" ELSE "&") \o k \o "=" \o QueryEscape(q[k])
            \o EncodeFrom(q, i + 1, FALSE)
       ELSE EncodeFrom(q, i + 1, first)
Encode(q) == EncodeFrom(q, 1, TRUE)

(***************************************************************************)
(* json.Marshal of a request struct: a field is a key, its JSON value and  *)
(* whether its omitempty tag drops it (empty string, 0, false, nil).       *)
(***************************************************************************)
\* A Go string is any sequence of bytes.  Latin1Name is the four bytes
\* 63 61 66 E9 ("cafe" with its last letter in Latin-1), which are not valid
\* UTF-8; the other strings of the model are valid UTF-8.
Latin1Name == "caf[E9]"
\* json.Marshal writes a string coerced to valid UTF-8: each invalid byte
\* becomes the replacement rune U+FFFD (the bytes EF BF BD)
ToValidUTF8(s) == IF s = Latin1Name THEN "caf[EFBFBD]" ELSE s
FStr(key, s, omitempty) ==
  [k |-> key, v |-> JStr(ToValidUTF8(s)), omit |-> omitempty /\ s = ""]
FInt(key, n, omitempty) == [k |-> key, v |-> JNum(n), omit |-> omitempty /\ n = 0]
FPtrInt(key, p, omitempty) ==
  [k |-> key, v |-> IF p = Nil THEN JNull ELSE JNum(p.v), omit |-> omitempty /\ p = Nil]
\* mutant: omitempty also drops a pointer to the empty string
FPtrStr_OmitEmptyString(key, p, omitempty) ==
  [k |-> key, v |-> IF p = Nil THEN JNull ELSE JStr(p.v),
   omit |-> omitempty /\ (p = Nil \/ p.v = "")]
FPtrStr(key, p, omitempty) ==
  [k |-> key, v |-> IF p = Nil THEN JNull ELSE JStr(ToValidUTF8(p.v)),
   omit |-> omitempty /\ p = Nil]
FPtrBool(key, p, omitempty) ==
  [k |-> key, v |-> IF p = Nil THEN JNull ELSE JBool(p.v), omit |-> omitempty /\ p = Nil]
\* a []int64: a nil slice marshals to null
FInts(key, l) ==
  [k |-> key,
   v |-> IF l = Nil THEN JNull ELSE JArr([i \in 1..Len(l.v) |-> JNum(l.v[i])]),
   omit |-> FALSE]
Marshal(fields) ==
  Doc(JObj([key \in {f.k : f \in {g \in fields : ~g.omit}} |->
              (CHOOSE f \in fields : f.k = key).v]))

(***************************************************************************)
(* The client.                                                             *)
(***************************************************************************)
ApiTokens == {"fimg_live_token"}

NewClient(apiToken) ==
  [BaseURL |-> DefaultBaseURL,
   HTTPClient |-> [Timeout |-> DefaultTimeout],
   apiToken |-> apiToken,
   userAgent |-> "f-image-go/" \o Version]

\* http.Header.Set
NoHeader == [k \in {} |-> ""]
HeaderSet(h, k, v) == [x \in DOMAIN h \cup {k} |-> IF x = k THEN v ELSE h[x]]

\* mutant: Content-Type is set whether or not there is a body
requestBuild_AlwaysContentType(c, method, path, body) ==
  LET h1 == HeaderSet(NoHeader, "Authorization", "Bearer " \o c.apiToken)
      h2 == HeaderSet(h1, "User-Agent", c.userAgent)
      h3 == HeaderSet(h2, "Content-Type", "application/json")
      h4 == HeaderSet(h3, "Accept", "application/json")
  IN [method |-> method, url |-> c.BaseURL \o path, header |-> h4,
      body |-> body]

\* the *http.Request Client.request builds and hands to HTTPClient.Do
requestBuild(c, method, path, body) ==
  LET h1 == HeaderSet(NoHeader, "Authorization", "Bearer " \o c.apiToken)
      h2 == HeaderSet(h1, "User-Agent", c.userAgent)
      h3 == IF body # Nil THEN HeaderSet(h2, "Content-Type", "application/json") ELSE h2
      h4 == HeaderSet(h3, "Accept", "application/json")
  IN [method |-> method, url |-> c.BaseURL \o path, header |-> h4,
      body |-> body]

\* mutant: only the 4xx and 5xx codes are taken for failures
requestFinish_From400(statusCode, respBody, result) ==
  LET zero == IF result = "nil" THEN Nil ELSE Zero(TypeOf(result)) IN
  IF statusCode >= 400
  THEN [err |-> parseAPIError(statusCode, respBody), val |-> zero]
  ELSE IF result # "nil" /\ ~IsEmptyBytes(respBody)
       THEN LET r == Unmarshal(respBody, TypeOf(result), zero) IN
            IF ~r.ok
            THEN [err |-> LocalErr("failed to decode response"), val |-> r.val]
            ELSE [err |-> NoErr, val |-> r.val]
       ELSE [err |-> NoErr, val |-> zero]

\* mutant: an empty body is decoded like any other
requestFinish_DecodeEmpty(statusCode, respBody, result) ==
  LET zero == IF result = "nil" THEN Nil ELSE Zero(TypeOf(result)) IN
  IF statusCode < 200 \/ statusCode >= 300
  THEN [err |-> parseAPIError(statusCode, respBody), val |-> zero]
  ELSE IF result # "nil"
       THEN LET r == Unmarshal(respBody, TypeOf(result), zero) IN
            IF ~r.ok
            THEN [err |-> LocalErr("failed to decode response"), val |-> r.val]
            ELSE [err |-> NoErr, val |-> r.val]
       ELSE [err |-> NoErr, val |-> zero]

\* mutant: the body is decoded before the status is looked at
requestFinish_DecodeFirst(statusCode, respBody, result) ==
  LET zero == IF result = "nil" THEN Nil ELSE Zero(TypeOf(result))
      r == IF result # "nil" /\ ~IsEmptyBytes(respBody)
           THEN Unmarshal(respBody, TypeOf(result), zero)
           ELSE [val |-> zero, ok |-> TRUE]
  IN IF ~r.ok
     THEN [err |-> LocalErr("failed to decode response"), val |-> r.val]
     ELSE IF statusCode < 200 \/ statusCode >= 300
          THEN [err |-> parseAPIError(statusCode, respBody), val |-> zero]
          ELSE [err |-> NoErr, val |-> r.val]

\* the tail of Client.request, once the response body is read
requestFinish(statusCode, respBody, result) ==
  LET zero == IF result = "nil" THEN Nil ELSE Zero(TypeOf(result)) IN
  IF statusCode < 200 \/ statusCode >= 300
  THEN [err |-> parseAPIError(statusCode, respBody), val |-> zero]
  ELSE IF result # "nil" /\ ~IsEmptyBytes(respBody)
       THEN LET r == Unmarshal(respBody, TypeOf(result), zero) IN
            IF ~r.ok
            THEN [err |-> LocalErr("failed to decode response"), val |-> r.val]
            ELSE [err |-> NoErr, val |-> r.val]
       ELSE [err |-> NoErr, val |-> zero]

\* mutant: the upload is labelled as JSON, like the requests of Client.request
multipartBuild_JSONContentType(c, path, content, filename, fieldOrder, fields) ==
  LET mp == [t |-> "multipart", boundary |-> "f1a2b3",
             parts |-> <<[name |-> "file", filename |-> filename, content |-> content]>>
                       \o [i \in 1..Len(fieldOrder) |->
                             [name |-> fieldOrder[i], filename |-> "",
                              content |-> fields[fieldOrder[i]]]]]
      h1 == HeaderSet(NoHeader, "Authorization", "Bearer " \o c.apiToken)
      h2 == HeaderSet(h1, "User-Agent", c.userAgent)
      h3 == HeaderSet(h2, "Content-Type", "application/json")
      h4 == HeaderSet(h3, "Accept", "application/json")
  IN [method |-> "POST", url |-> c.BaseURL \o path, header |-> h4, body |-> mp]

\* mutant: the file part always carries the default name
multipartBuild_DefaultName(c, path, content, filename, fieldOrder, fields) ==
  LET mp == [t |-> "multipart", boundary |-> "f1a2b3",
             parts |-> <<[name |-> "file", filename |-> "image.jpg", content |-> content]>>
                       \o [i \in 1..Len(fieldOrder) |->
                             [name |-> fieldOrder[i], filename |-> "",
                              content |-> fields[fieldOrder[i]]]]]
      h1 == HeaderSet(NoHeader, "Authorization", "Bearer " \o c.apiToken)
      h2 == HeaderSet(h1, "User-Agent", c.userAgent)
      h3 == HeaderSet(h2, "Content-Type", "multipart/form-data; boundary=f1a2b3")
      h4 == HeaderSet(h3, "Accept", "application/json")
  IN [method |-> "POST", url |-> c.BaseURL \o path, header |-> h4, body |-> mp]

\* the multipart body and the request Client.uploadMultipart builds
Boundary == "f1a2b3"
multipartBuild(c, path, content, filename, fieldOrder, fields) ==
  LET mp == [t |-> "multipart", boundary |-> Boundary,
             parts |-> <<[name |-> "file", filename |-> filename, content |-> content]>>
                       \o [i \in 1..Len(fieldOrder) |->
                             [name |-> fieldOrder[i], filename |-> "",
                              content |-> fields[fieldOrder[i]]]]]
      h1 == HeaderSet(NoHeader, "Authorization", "Bearer " \o c.apiToken)
      h2 == HeaderSet(h1, "User-Agent", c.userAgent)
      h3 == HeaderSet(h2, "Content-Type", "multipart/form-data; boundary=" \o Boundary)
      h4 == HeaderSet(h3, "Accept", "application/json")
  IN [method |-> "POST", url |-> c.BaseURL \o path, header |-> h4, body |-> mp]

\* the tail of Client.uploadMultipart: the raw body or a classified error
uploadFinish(statusCode, respBody) ==
  IF statusCode < 200 \/ statusCode >= 300
  THEN [err |-> parseAPIError(statusCode, respBody), val |-> Nil]
  ELSE [err |-> NoErr, val |-> Ptr(respBody)]

(***************************************************************************)
(* State.                                                                  *)
(*   client  the Client built by NewClient                                 *)
(*   pc      where the one invocation in progress stands                   *)
(*   call    the method invoked, its arguments and its destination type    *)
(*   ctx     the caller's context                                          *)
(*   reader  what is left of the caller's io.Reader (Files.Upload)         *)
(*   buf     the bytes io.Copy has written to the file part                *)
(*   sent    the requests handed to HTTPClient.Do by this invocation       *)
(*   resp    the response Do returned: status, body, and whether           *)
(*           io.ReadAll has read the body                                  *)
(*   ret     what the method returned: result and error                    *)
(***************************************************************************)
VARIABLES client, pc, call, ctx, reader, buf, sent, resp, ret

vars == <<client, pc, call, ctx, reader, buf, sent, resp, ret>>

NoCall == [op |-> "none", via |-> "none", dest |-> "nil", args |-> Nil]

Init ==
  /\ client \in {NewClient(t) : t \in ApiTokens}
  /\ pc = "idle"
  /\ call = NoCall
  /\ ctx = "active"
  /\ reader = NoReader
  /\ buf = <<>>
  /\ sent = <<>>
  /\ resp = Nil
  /\ ret = Nil

(***************************************************************************)
(* The head of Client.request, from a service method: marshal the body,    *)
(* build the request, set the headers and call HTTPClient.Do.  The bodies  *)
(* the services pass are plain structs, which json.Marshal cannot reject,  *)
(* and the methods and URLs they pass are ones NewRequestWithContext       *)
(* accepts.                                                                *)
(***************************************************************************)
request(op, args, cx, method, path, body, result) ==
  /\ pc' = "inflight"
  /\ call' = [op |-> op, via |-> "request", dest |-> result, args |-> args]
  /\ ctx' = cx
  /\ sent' = Append(sent, requestBuild(client, method, path, body))
  /\ UNCHANGED <<client, reader, buf, resp, ret>>

\* mutant: the "?" is appended whether or not there are pairs
requestWithQuery_AlwaysMark(op, args, cx, path, query, result) ==
  request(op, args, cx, "GET", path \o "?" \o Encode(query), Nil, result)

\* requestWithQuery
requestWithQuery(op, args, cx, path, query, result) ==
  request(op, args, cx, "GET",
          IF DOMAIN query # {} THEN path \o "?" \o Encode(query) ELSE path,
          Nil, result)

\* a method that returns (nil, fmt.Errorf(what)) before any request
localError(op, args, cx, what) ==
  /\ pc' = "done"
  /\ call' = [op |-> op, via |-> "none", dest |-> "nil", args |-> args]
  /\ ctx' = cx
  /\ ret' = [result |-> Nil, err |-> LocalErr(what)]
  /\ UNCHANGED <<client, reader, buf, sent, resp>>

\* the page and limit parameters the list operations add
PageLimit(q, opts) ==
  LET q1 == IF opts.Page > 0 THEN QuerySet(q, "page", Itoa(opts.Page)) ELSE q
  IN IF opts.Limit > 0 THEN QuerySet(q1, "limit", Itoa(opts.Limit)) ELSE q1

(***************************************************************************)
(* FilesService                                                            *)
(***************************************************************************)
UploadOptionsSet ==
  {Nil}
  \cup {Ptr([Filename |-> f, Description |-> d, AlbumID |-> Nil]) :
          f \in Filenames, d \in Descriptions}
  \cup {Ptr([Filename |-> "a.jpg", Description |-> d, AlbumID |-> Ptr(MaxID)]) :
          d \in Descriptions}

FilesUpload ==
  \E r \in Readers, o \in UploadOptionsSet, cx \in Ctxs :
    LET opts == IF o = Nil
                THEN [Filename |-> "", Description |-> "", AlbumID |-> Nil]
                ELSE o.v
        filename == IF opts.Filename = "" THEN "image.jpg" ELSE opts.Filename
        fields == IF opts.Description # ""
                  THEN [k \in {"description"} |-> opts.Description]
                  ELSE [k \in {} |-> ""]
    IN /\ pc = "idle"
       /\ pc' = "copying"
       /\ call' = [op |-> "FilesUpload", via |-> "upload", dest |-> "UploadResponse",
                   args |-> [opts |-> o, path |-> "/api/files/upload",
                             filename |-> filename, fields |-> fields,
                             stream |-> r.data]]
       /\ ctx' = cx
       /\ reader' = r
       /\ buf' = <<>>
       /\ UNCHANGED <<client, sent, resp, ret>>

FilesUploadFromURL ==
  \E imageURL \in ImageURLs, cx \in Ctxs :
    /\ pc = "idle"
    /\ request("FilesUploadFromURL", [imageURL |-> imageURL], cx, "POST",
               "/api/files/upload_from_url",
               Marshal({FStr("url", imageURL, FALSE)}), "UploadResponse")

ListOptionsSet ==
  {Nil}
  \cup {Ptr([Page |-> pl[1], Limit |-> pl[2], AlbumID |-> Nil]) : pl \in PagePairs}
  \cup {Ptr([Page |-> 0, Limit |-> 0, AlbumID |-> a]) : a \in OptIds}
  \cup {Ptr([Page |-> 2, Limit |-> 5, AlbumID |-> Ptr(MaxID)])}

FilesList ==
  \E o \in ListOptionsSet, cx \in Ctxs :
    LET q1 == IF o # Nil THEN PageLimit(NoQuery, o.v) ELSE NoQuery
        query == IF o # Nil /\ o.v.AlbumID # Nil
                 THEN QuerySet(q1, "album_id", Itoa(o.v.AlbumID.v))
                 ELSE q1
    IN /\ pc = "idle"
       /\ requestWithQuery("FilesList", [opts |-> o], cx, "/api/files", query,
                           "FilesListResponse")

SearchOptionsSet ==
  {Nil} \cup {Ptr([Query |-> q, Page |-> pl[1], Limit |-> pl[2]]) :
                q \in Queries, pl \in PagePairs}

FilesSearch ==
  \E o \in SearchOptionsSet, cx \in Ctxs :
    /\ pc = "idle"
    /\ IF o = Nil \/ o.v.Query = ""
       THEN localError("FilesSearch", [opts |-> o], cx, "search query is required")
       ELSE requestWithQuery("FilesSearch", [opts |-> o], cx, "/api/files/search",
                             PageLimit(QuerySet(NoQuery, "q", o.v.Query), o.v),
                             "FilesListResponse")

\* mutant: a zero file id is rejected before any request
FilesDelete_RejectZero ==
  \E fileID \in Ids, cx \in Ctxs :
    /\ pc = "idle"
    /\ IF fileID = 0
       THEN localError("FilesDelete", [fileID |-> fileID], cx, "file id is required")
       ELSE request("FilesDelete", [fileID |-> fileID], cx, "DELETE",
                    "/api/files/" \o Itoa(fileID), Nil, "MessageResponse")

FilesDelete ==
  \E fileID \in Ids, cx \in Ctxs :
    /\ pc = "idle"
    /\ request("FilesDelete", [fileID |-> fileID], cx, "DELETE",
               "/api/files/" \o Itoa(fileID), Nil, "MessageResponse")

FilesBatchDelete ==
  \E fileIDs \in IdLists, cx \in Ctxs :
    /\ pc = "idle"
    /\ request("FilesBatchDelete", [fileIDs |-> fileIDs], cx, "POST",
               "/api/files/batch-delete",
               Marshal({FInts("file_ids", fileIDs)}), "BatchDeleteResponse")

FilesMove ==
  \E fileID \in Ids, albumID \in OptIds, cx \in Ctxs :
    LET query == IF albumID # Nil
                 THEN QuerySet(NoQuery, "album_id", Itoa(albumID.v))
                 ELSE NoQuery
        path == "/api/files/" \o Itoa(fileID) \o "/move"
    IN /\ pc = "idle"
       /\ request("FilesMove", [fileID |-> fileID, albumID |-> albumID], cx, "PUT",
                  IF DOMAIN query # {} THEN path \o "?" \o Encode(query) ELSE path,
                  Nil, "MessageResponse")

FilesMoveMany ==
  \E fileIDs \in IdLists, albumID \in OptIds, cx \in Ctxs :
    /\ pc = "idle"
    /\ request("FilesMoveMany", [fileIDs |-> fileIDs, albumID |-> albumID], cx, "PUT",
               "/api/files/move",
               Marshal({FInts("file_ids", fileIDs), FPtrInt("album_id", albumID, TRUE)}),
               "MessageResponse")

(***************************************************************************)
(* AlbumsService                                                           *)
(***************************************************************************)
AlbumOptionsSet ==
  {Nil} \cup {Ptr([Name |-> n, Description |-> d]) : n \in Names, d \in Descriptions}
        \cup {Ptr([Name |-> Latin1Name, Description |-> ""])}

AlbumsList ==
  \E cx \in Ctxs :
    /\ pc = "idle"
    /\ request("AlbumsList", Nil, cx, "GET", "/api/albums", Nil, "AlbumsListResponse")

AlbumsGet ==
  \E albumID \in Ids, cx \in Ctxs :
    /\ pc = "idle"
    /\ request("AlbumsGet", [albumID |-> albumID], cx, "GET",
               "/api/albums/" \o Itoa(albumID), Nil, "Album")

\* mutant: the name is sent under the key "title"
AlbumsCreate_NameAsTitle ==
  \E o \in AlbumOptionsSet, cx \in Ctxs :
    /\ pc = "idle"
    /\ IF o = Nil \/ o.v.Name = ""
       THEN localError("AlbumsCreate", [opts |-> o], cx, "album name is required")
       ELSE request("AlbumsCreate", [opts |-> o], cx, "POST", "/api/albums",
                    Marshal({FStr("title", o.v.Name, FALSE),
                             FStr("description", o.v.Description, TRUE)}),
                    "Album")

AlbumsCreate ==
  \E o \in AlbumOptionsSet, cx \in Ctxs :
    /\ pc = "idle"
    /\ IF o = Nil \/ o.v.Name = ""
       THEN localError("AlbumsCreate", [opts |-> o], cx, "album name is required")
       ELSE request("AlbumsCreate", [opts |-> o], cx, "POST", "/api/albums",
                    Marshal({FStr("name", o.v.Name, FALSE),
                             FStr("description", o.v.Description, TRUE)}),
                    "Album")

AlbumsUpdate ==
  \E albumID \in Ids, o \in AlbumOptionsSet, cx \in Ctxs :
    /\ pc = "idle"
    /\ IF o = Nil \/ o.v.Name = ""
       THEN localError("AlbumsUpdate", [albumID |-> albumID, opts |-> o], cx,
                       "album name is required")
       ELSE request("AlbumsUpdate", [albumID |-> albumID, opts |-> o], cx, "PUT",
                    "/api/albums/" \o Itoa(albumID),
                    Marshal({FStr("name", o.v.Name, FALSE),
                             FStr("description", o.v.Description, TRUE)}),
                    "Album")

AlbumsDelete ==
  \E albumID \in Ids, cx \in Ctxs :
    /\ pc = "idle"
    /\ request("AlbumsDelete", [albumID |-> albumID], cx, "DELETE",
               "/api/albums/" \o Itoa(albumID), Nil, "MessageResponse")

(***************************************************************************)
(* ShareService                                                            *)
(***************************************************************************)
PageOptionsSet ==
  {Nil} \cup {Ptr([Page |-> pl[1], Limit |-> pl[2]]) : pl \in PagePairs}

CreateShareOptionsSet ==
  {Nil} \cup
  {Ptr([FileID |-> f, AlbumID |-> a, Password |-> e.pw, ExpiresIn |-> e.h,
        MaxViews |-> e.m]) :
     f \in OptIds, a \in OptIds,
     e \in {[pw |-> "", h |-> 0, m |-> 0], [pw |-> "secret123", h |-> 24, m |-> 100]}}

UpdateShareOptionsSet ==
  {Nil} \cup
  {Ptr([Password |-> pw, MaxViews |-> e.m, IsActive |-> e.ia]) :
     pw \in {Nil} \cup {Ptr(x) : x \in Passwords},
     e \in {[m |-> Nil, ia |-> Nil], [m |-> Ptr(0), ia |-> Ptr(FALSE)],
            [m |-> Ptr(100), ia |-> Ptr(TRUE)]}}

ShareList ==
  \E o \in PageOptionsSet, cx \in Ctxs :
    /\ pc = "idle"
    /\ requestWithQuery("ShareList", [opts |-> o], cx, "/api/shares",
                        IF o # Nil THEN PageLimit(NoQuery, o.v) ELSE NoQuery,
                        "SharesListResponse")

\* mutant: only nil options are rejected
ShareCreate_NilOnly ==
  \E o \in CreateShareOptionsSet, cx \in Ctxs :
    /\ pc = "idle"
    /\ IF o = Nil
       THEN localError("ShareCreate", [opts |-> o], cx,
                       "either FileID or AlbumID is required")
       ELSE request("ShareCreate", [opts |-> o], cx, "POST", "/api/shares",
                    Marshal({FPtrInt("file_id", o.v.FileID, TRUE),
                             FPtrInt("album_id", o.v.AlbumID, TRUE),
                             FStr("password", o.v.Password, TRUE),
                             FInt("expires_in", o.v.ExpiresIn, TRUE),
                             FInt("max_views", o.v.MaxViews, TRUE)}),
                    "ShareLink")

ShareCreate ==
  \E o \in CreateShareOptionsSet, cx \in Ctxs :
    /\ pc = "idle"
    /\ IF o = Nil \/ (o.v.FileID = Nil /\ o.v.AlbumID = Nil)
       THEN localError("ShareCreate", [opts |-> o], cx,
                       "either FileID or AlbumID is required")
       ELSE request("ShareCreate", [opts |-> o], cx, "POST", "/api/shares",
                    Marshal({FPtrInt("file_id", o.v.FileID, TRUE),
                             FPtrInt("album_id", o.v.AlbumID, TRUE),
                             FStr("password", o.v.Password, TRUE),
                             FInt("expires_in", o.v.ExpiresIn, TRUE),
                             FInt("max_views", o.v.MaxViews, TRUE)}),
                    "ShareLink")

ShareUpdate ==
  \E shareID \in Ids, o \in UpdateShareOptionsSet, cx \in Ctxs :
    /\ pc = "idle"
    /\ IF o = Nil
       THEN localError("ShareUpdate", [shareID |-> shareID, opts |-> o], cx,
                       "update options are required")
       ELSE request("ShareUpdate", [shareID |-> shareID, opts |-> o], cx, "PUT",
                    "/api/shares/" \o Itoa(shareID),
                    Marshal({FPtrStr("password", o.v.Password, TRUE),
                             FPtrInt("max_views", o.v.MaxViews, TRUE),
                             FPtrBool("is_active", o.v.IsActive, TRUE)}),
                    "ShareLink")

ShareDelete ==
  \E shareID \in Ids, cx \in Ctxs :
    /\ pc = "idle"
    /\ request("ShareDelete", [shareID |-> shareID], cx, "DELETE",
               "/api/shares/" \o Itoa(shareID), Nil, "MessageResponse")

\* mutant: an empty token is rejected before any request
ShareAccess_RejectEmpty ==
  \E token \in ShareTokens, cx \in Ctxs :
    /\ pc = "idle"
    /\ IF token = ""
       THEN localError("ShareAccess", [token |-> token], cx, "token is required")
       ELSE request("ShareAccess", [token |-> token], cx, "GET", "/api/s/" \o token,
                    Nil, "SharedContent")

ShareAccess ==
  \E token \in ShareTokens, cx \in Ctxs :
    /\ pc = "idle"
    /\ request("ShareAccess", [token |-> token], cx, "GET", "/api/s/" \o token, Nil,
               "SharedContent")

ShareVerifyPassword ==
  \E token \in ShareTokens, password \in Passwords, cx \in Ctxs :
    /\ pc = "idle"
    /\ request("ShareVerifyPassword", [token |-> token, password |-> password], cx,
               "POST", "/api/s/" \o token \o "/verify",
               Marshal({FStr("password", password, FALSE)}), "SharedContent")

(***************************************************************************)
(* TagsService                                                             *)
(***************************************************************************)
TagOptionsSet ==
  {Nil} \cup {Ptr([Name |-> n, Color |-> c]) : n \in {"", "Nature"}, c \in Colors}

TagsList ==
  \E cx \in Ctxs :
    /\ pc = "idle"
    /\ request("TagsList", Nil, cx, "GET", "/api/tags", Nil, "TagsListResponse")

TagsCreate ==
  \E o \in TagOptionsSet, cx \in Ctxs :
    /\ pc = "idle"
    /\ IF o = Nil \/ o.v.Name = ""
       THEN localError("TagsCreate", [opts |-> o], cx, "tag name is required")
       ELSE request("TagsCreate", [opts |-> o], cx, "POST", "/api/tags",
                    Marshal({FStr("name", o.v.Name, FALSE),
                             FStr("color", o.v.Color, TRUE)}),
                    "Tag")

TagsUpdate ==
  \E tagID \in Ids, o \in TagOptionsSet, cx \in Ctxs :
    /\ pc = "idle"
    /\ IF o = Nil
       THEN localError("TagsUpdate", [tagID |-> tagID, opts |-> o], cx,
                       "update options are required")
       ELSE request("TagsUpdate", [tagID |-> tagID, opts |-> o], cx, "PUT",
                    "/api/tags/" \o Itoa(tagID),
                    Marshal({FStr("name", o.v.Name, TRUE),
                             FStr("color", o.v.Color, TRUE)}),
                    "Tag")

TagsDelete ==
  \E tagID \in Ids, cx \in Ctxs :
    /\ pc = "idle"
    /\ request("TagsDelete", [tagID |-> tagID], cx, "DELETE",
               "/api/tags/" \o Itoa(tagID), Nil, "MessageResponse")

TagsTagFile ==
  \E fileID \in Ids, tagID \in Ids, cx \in Ctxs :
    /\ pc = "idle"
    /\ request("TagsTagFile", [fileID |-> fileID, tagID |-> tagID], cx, "POST",
               "/api/tags/file",
               Marshal({FInt("file_id", fileID, FALSE), FInt("tag_id", tagID, FALSE)}),
               "MessageResponse")

TagsUntagFile ==
  \E fileID \in Ids, tagID \in Ids, cx \in Ctxs :
    /\ pc = "idle"
    /\ request("TagsUntagFile", [fileID |-> fileID, tagID |-> tagID], cx, "DELETE",
               "/api/tags/file",
               Marshal({FInt("file_id", fileID, FALSE), FInt("tag_id", tagID, FALSE)}),
               "MessageResponse")

TagsGetFiles ==
  \E tagID \in Ids, o \in PageOptionsSet, cx \in Ctxs :
    LET path == "/api/tags/" \o Itoa(tagID) \o "/files"
        query == IF o # Nil THEN PageLimit(NoQuery, o.v) ELSE NoQuery
    IN /\ pc = "idle"
       /\ request("TagsGetFiles", [tagID |-> tagID, opts |-> o], cx, "GET",
                  IF DOMAIN query # {} THEN path \o "?" \o Encode(query) ELSE path,
                  Nil, "FilesListResponse")

(***************************************************************************)
(* TrashService                                                            *)
(***************************************************************************)
TrashList ==
  \E o \in PageOptionsSet, cx \in Ctxs :
    /\ pc = "idle"
    /\ requestWithQuery("TrashList", [opts |-> o], cx, "/api/trash",
                        IF o # Nil THEN PageLimit(NoQuery, o.v) ELSE NoQuery,
                        "TrashListResponse")

TrashRestore ==
  \E fileID \in Ids, cx \in Ctxs :
    /\ pc = "idle"
    /\ request("TrashRestore", [fileID |-> fileID], cx, "POST",
               "/api/trash/" \o Itoa(fileID) \o "/restore", Nil, "RestoreResponse")

TrashRestoreMany ==
  \E fileIDs \in IdLists, cx \in Ctxs :
    /\ pc = "idle"
    /\ request("TrashRestoreMany", [fileIDs |-> fileIDs], cx, "POST",
               "/api/trash/restore",
               Marshal({FInts("file_ids", fileIDs)}), "RestoreResponse")

TrashPermanentDelete ==
  \E fileID \in Ids, cx \in Ctxs :
    /\ pc = "idle"
    /\ request("TrashPermanentDelete", [fileID |-> fileID], cx, "DELETE",
               "/api/trash/" \o Itoa(fileID), Nil, "DeleteResult")

TrashEmpty ==
  \E cx \in Ctxs :
    /\ pc = "idle"
    /\ request("TrashEmpty", Nil, cx, "DELETE", "/api/trash/empty", Nil, "DeleteResult")

(***************************************************************************)
(* Client.uploadMultipart, before the request: io.Copy drains the caller's *)
(* reader into the file part of a bytes.Buffer; only then are the fields   *)
(* written (in map order), the request built and HTTPClient.Do called.     *)
(***************************************************************************)
Orders(S) == {o \in [1..Cardinality(S) -> S] : \A i, j \in DOMAIN o : o[i] = o[j] => i = j}

CopyRead ==
  /\ pc = "copying"
  /\ reader.data # <<>>
  /\ buf' = Append(buf, Head(reader.data))
  /\ reader' = [reader EXCEPT !.data = Tail(reader.data)]
  /\ UNCHANGED <<client, pc, call, ctx, sent, resp, ret>>

CopyEOF ==
  /\ pc = "copying"
  /\ reader.data = <<>>
  /\ reader.end = "eof"
  /\ \E order \in Orders(DOMAIN call.args.fields) :
       sent' = Append(sent, multipartBuild(client, call.args.path, buf,
                                           call.args.filename, order, call.args.fields))
  /\ pc' = "inflight"
  /\ UNCHANGED <<client, call, ctx, reader, buf, resp, ret>>

CopyError ==
  /\ pc = "copying"
  /\ reader.data = <<>>
  /\ reader.end = "err"
  /\ pc' = "done"
  /\ ret' = [result |-> Nil, err |-> LocalErr("failed to copy file data")]
  /\ UNCHANGED <<client, call, ctx, reader, buf, sent, resp>>

(***************************************************************************)
(* The caller's context, the network and the server.                       *)
(***************************************************************************)
InCall == pc \in {"copying", "inflight", "reading"}

Cancel ==
  /\ InCall
  /\ ctx = "active"
  /\ ctx' = "cancelled"
  /\ UNCHANGED <<client, pc, call, reader, buf, sent, resp, ret>>

\* HTTPClient.Do returns a response: the round trip is complete
DoResponse ==
  \E status \in Statuses, body \in Bodies :
    /\ pc = "inflight"
    /\ ctx = "active"
    /\ resp' = [status |-> status, body |-> body, read |-> "pending"]
    /\ pc' = "reading"
    /\ UNCHANGED <<client, call, ctx, reader, buf, sent, ret>>

\* HTTPClient.Do returns the response of a server that creates the album and
\* answers 201 with the name and the description it received
DoEchoResponse ==
  /\ pc = "inflight"
  /\ ctx = "active"
  /\ call.op = "AlbumsCreate"
  /\ resp' = [status |-> 201, body |-> sent[Len(sent)].body, read |-> "pending"]
  /\ pc' = "reading"
  /\ UNCHANGED <<client, call, ctx, reader, buf, sent, ret>>

\* what a method returns when Do, or io.ReadAll, returns an error
transportError(what) ==
  /\ pc' = "done"
  /\ ret' = [result |-> Nil, err |-> LocalErr(what)]
  /\ UNCHANGED <<client, call, ctx, reader, buf, sent>>

\* HTTPClient.Do returns the context's error
DoCancelled ==
  /\ pc = "inflight"
  /\ ctx = "cancelled"
  /\ transportError("request failed")
  /\ UNCHANGED resp

\* mutant: a failed request is sent again
DoNetworkError_Retry ==
  /\ pc = "inflight"
  /\ ctx = "active"
  /\ sent' = Append(sent, sent[Len(sent)])
  /\ UNCHANGED <<client, pc, call, ctx, reader, buf, resp, ret>>

\* HTTPClient.Do returns a network error or the client's Timeout expires
DoNetworkError ==
  /\ pc = "inflight"
  /\ ctx = "active"
  /\ transportError("request failed")
  /\ UNCHANGED resp

\* io.ReadAll(resp.Body) fails
ReadAllError ==
  /\ pc = "reading"
  /\ resp' = [resp EXCEPT !.read = "failed"]
  /\ transportError("failed to read response body")

(***************************************************************************)
(* What the service methods return once the transport has.                 *)
(***************************************************************************)
\* mutant: a batch answer that reports failed items is turned into an error
serviceReturn_FailedIsError(op, fin) ==
  IF fin.err # NoErr
  THEN [result |-> Nil, err |-> fin.err]
  ELSE IF op \in {"FilesBatchDelete", "TrashRestoreMany"} /\ fin.val.failed > 0
  THEN [result |-> Nil, err |-> LocalErr("some items failed")]
  ELSE [result |-> CASE op = "AlbumsList" -> fin.val.albums
                     [] op = "TagsList" -> fin.val
                     [] OTHER -> Ptr(fin.val),
        err |-> NoErr]

\* mutant: what was decoded before the failure is returned with the error
serviceReturn_PartialResult(op, fin) ==
  IF fin.err # NoErr
  THEN [result |-> IF fin.err.kind = "local" THEN Ptr(fin.val) ELSE Nil, err |-> fin.err]
  ELSE [result |-> CASE op = "AlbumsList" -> fin.val.albums
                     [] op = "TagsList" -> fin.val
                     [] OTHER -> Ptr(fin.val),
        err |-> NoErr]

\* the methods built on Client.request
serviceReturn(op, fin) ==
  IF fin.err # NoErr
  THEN [result |-> Nil, err |-> fin.err]
  ELSE [result |-> CASE op = "AlbumsList" -> fin.val.albums
                     [] op = "TagsList" -> fin.val
                     [] OTHER -> Ptr(fin.val),
        err |-> NoErr]

\* mutant: Files.Upload skips the decoding of an empty body, as Client.request does
uploadReturn_SkipEmpty(up) ==
  IF up.err # NoErr
  THEN [result |-> Nil, err |-> up.err]
  ELSE IF IsEmptyBytes(up.val.v)
  THEN [result |-> Ptr(Zero(TypeOf("UploadResponse"))), err |-> NoErr]
  ELSE LET r == Unmarshal(up.val.v, TypeOf("UploadResponse"), Zero(TypeOf("UploadResponse")))
       IN IF ~r.ok
          THEN [result |-> Nil, err |-> LocalErr("failed to decode response")]
          ELSE [result |-> Ptr(r.val), err |-> NoErr]

\* Files.Upload
uploadReturn(up) ==
  IF up.err # NoErr
  THEN [result |-> Nil, err |-> up.err]
  ELSE LET r == Unmarshal(up.val.v, TypeOf("UploadResponse"), Zero(TypeOf("UploadResponse")))
       IN IF ~r.ok
          THEN [result |-> Nil, err |-> LocalErr("failed to decode response")]
          ELSE [result |-> Ptr(r.val), err |-> NoErr]

methodReturn(c, status, body) ==
  IF c.via = "upload"
  THEN uploadReturn(uploadFinish(status, body))
  ELSE serviceReturn(c.op, requestFinish(status, body, c.dest))

\* io.ReadAll(resp.Body) succeeds; the rest of the transport and of the
\* method run to the return
ReadAllOK ==
  /\ pc = "reading"
  /\ resp' = [resp EXCEPT !.read = "ok"]
  /\ ret' = methodReturn(call, resp.status, resp.body)
  /\ pc' = "done"
  /\ UNCHANGED <<client, call, ctx, reader, buf, sent>>

\* the caller takes the result; the next invocation starts afresh
Return ==
  /\ pc = "done"
  /\ pc' = "idle"
  /\ call' = NoCall
  /\ ctx' = "active"
  /\ reader' = NoReader
  /\ buf' = <<>>
  /\ sent' = <<>>
  /\ resp' = Nil
  /\ ret' = Nil
  /\ UNCHANGED client

Next ==
  \/ FilesUpload \/ FilesUploadFromURL \/ FilesList \/ FilesSearch
  \/ FilesDelete \/ FilesBatchDelete \/ FilesMove \/ FilesMoveMany
  \/ AlbumsList \/ AlbumsGet \/ AlbumsCreate \/ AlbumsUpdate \/ AlbumsDelete
  \/ ShareList \/ ShareCreate \/ ShareUpdate \/ ShareDelete
  \/ ShareAccess \/ ShareVerifyPassword
  \/ TagsList \/ TagsCreate \/ TagsUpdate \/ TagsDelete
  \/ TagsTagFile \/ TagsUntagFile \/ TagsGetFiles
  \/ TrashList \/ TrashRestore \/ TrashRestoreMany \/ TrashPermanentDelete
  \/ TrashEmpty
  \/ CopyRead \/ CopyEOF \/ CopyError
  \/ Cancel \/ DoResponse \/ DoEchoResponse \/ DoCancelled \/ DoNetworkError
  \/ ReadAllOK \/ ReadAllError
  \/ Return

Spec == Init /\ [][Next]_vars

(***************************************************************************)
(* Properties.                                                             *)
(***************************************************************************)
Returned == pc = "done"
\* a response was received and its body read in full
GotResponse == resp # Nil /\ resp.read = "ok"
Is2xx(code) == code >= 200 /\ code < 300
HTMLBody == Raw("<html>gateway error</html>")

\* C1: whenever a method (over Client.request or Client.uploadMultipart) has
\* read a response whose status code is outside [200,300), it returns an
\* *APIError whose StatusCode is that status code, whatever the body is.
C1_NonSuccessIsAPIError ==
  (Returned /\ GotResponse /\ ~Is2xx(resp.status))
    => /\ ret.err.kind = "api"
       /\ ret.err.StatusCode = resp.status
       /\ ret.result = Nil

C1_Witness ==
  /\ Returned /\ GotResponse
  /\ call.via = "upload"
  /\ resp.status = 300
  /\ resp.body = HTMLBody
  /\ ret.err = APIError(300, HTMLBody)

\* C2: on an APIError, IsUnauthorized holds iff the status code is 401,
\* IsForbidden iff 403, IsNotFound iff 404, IsBadRequest iff 400 and
\* IsQuotaExceeded iff it is 402 or 413; for any other code all five are false.
PredicatesMatch(e) ==
  /\ IsUnauthorized(e) <=> e.StatusCode = 401
  /\ IsForbidden(e) <=> e.StatusCode = 403
  /\ IsNotFound(e) <=> e.StatusCode = 404
  /\ IsBadRequest(e) <=> e.StatusCode = 400
  /\ IsQuotaExceeded(e) <=> e.StatusCode \in {402, 413}
  /\ e.StatusCode \notin {400, 401, 402, 403, 404, 413}
       => ~(IsUnauthorized(e) \/ IsForbidden(e) \/ IsNotFound(e)
            \/ IsBadRequest(e) \/ IsQuotaExceeded(e))

C2_PredicatesByStatus ==
  /\ (Returned /\ ret.err.kind = "api") => PredicatesMatch(ret.err)
  /\ resp # Nil => PredicatesMatch(APIError(resp.status, resp.body))

C2_Witness ==
  /\ Returned
  /\ ret.err.kind = "api"
  /\ ret.err.StatusCode = 413
  /\ IsQuotaExceeded(ret.err)
  /\ ~IsBadRequest(ret.err)

\* the string at key k of a body that is a JSON object, "" when there is none
StrField(b, k) ==
  IF b.t = "json" /\ b.v.t = "obj" /\ k \in DOMAIN b.v.f /\ b.v.f[k].t = "str"
  THEN b.v.f[k].s
  ELSE ""
\* error, else message, else the status text
ByPriority(b, code) ==
  IF StrField(b, "error") # "" THEN Raw(StrField(b, "error"))
  ELSE IF StrField(b, "message") # "" THEN Raw(StrField(b, "message"))
  ELSE Raw(StatusText(code))
\* the body is no JSON document, or a JSON document that is neither an object
\* nor null
NotAnObject(b) == b.t = "raw" \/ b.v.t \notin {"obj", "null"}
\* an error or message key holds something that is neither a string nor null
MistypedField(b) ==
  /\ b.t = "json" /\ b.v.t = "obj"
  /\ \E k \in {"error", "message"} \cap DOMAIN b.v.f : b.v.f[k].t \notin {"str", "null"}
MistypedBody == Doc(Obj2("error", JNum(7), "message", JStr("quota")))

\* C3 as stated: the message is the error field if non-empty, else the message
\* field if non-empty, else the status text, and the raw body only when the
\* body cannot be parsed at all.
C3_MessagePriority ==
  (Returned /\ GotResponse /\ ~Is2xx(resp.status))
    => ret.err.Message = IF NotAnObject(resp.body)
                         THEN resp.body
                         ELSE ByPriority(resp.body, resp.status)

\* C3, amended: the raw body is the message whenever decoding the body into
\* the two string fields reports an error, which includes a JSON object whose
\* error or message is neither a string nor null; otherwise the priority
\* order holds.
C3_MessagePriorityOrRaw ==
  (Returned /\ GotResponse /\ ~Is2xx(resp.status))
    => ret.err.Message = IF NotAnObject(resp.body) \/ MistypedField(resp.body)
                         THEN resp.body
                         ELSE ByPriority(resp.body, resp.status)

C3_Witness ==
  /\ Returned /\ GotResponse
  /\ call.op = "TagsGetFiles"
  /\ resp.status = 404
  /\ resp.body = Doc(Obj1("error", JStr("not found")))
  /\ ret.err.Message = Raw("not found")
  /\ IsNotFound(ret.err)

\* C4: every request Client.request sends carries Authorization: Bearer
\* <token>, the User-Agent and Accept: application/json, and carries
\* Content-Type: application/json exactly when the method supplied a body.
BodyOps ==
  {"FilesUploadFromURL", "FilesBatchDelete", "FilesMoveMany", "AlbumsCreate",
   "AlbumsUpdate", "ShareCreate", "ShareUpdate", "ShareVerifyPassword",
   "TagsCreate", "TagsUpdate", "TagsTagFile", "TagsUntagFile", "TrashRestoreMany"}

C4_RequestHeaders ==
  call.via = "request" =>
    \A i \in DOMAIN sent :
      LET h == sent[i].header IN
      /\ {"Authorization", "User-Agent", "Accept"} \subseteq DOMAIN h
      /\ h["Authorization"] = "Bearer " \o client.apiToken
      /\ h["User-Agent"] = client.userAgent
      /\ h["Accept"] = "application/json"
      /\ "Content-Type" \in DOMAIN h <=> call.op \in BodyOps
      /\ call.op \in BodyOps <=> sent[i].body # Nil
      /\ "Content-Type" \in DOMAIN h => h["Content-Type"] = "application/json"

C4_Witness ==
  /\ call.op = "ShareAccess"
  /\ Len(sent) = 1
  /\ sent[1].header["Authorization"] = "Bearer fimg_live_token"
  /\ "Content-Type" \notin DOMAIN sent[1].header

\* C5: a call whose local precondition fails returns a non-nil error that is
\* no *APIError, with a nil result, and hands no request to the network.
NilOrNoName(o) == o = Nil \/ o.v.Name = ""
PreconditionFails ==
  \/ call.op = "ShareCreate"
       /\ (call.args.opts = Nil
           \/ (call.args.opts.v.FileID = Nil /\ call.args.opts.v.AlbumID = Nil))
  \/ call.op \in {"AlbumsCreate", "AlbumsUpdate", "TagsCreate"}
       /\ NilOrNoName(call.args.opts)
  \/ call.op = "FilesSearch"
       /\ (call.args.opts = Nil \/ call.args.opts.v.Query = "")
  \/ call.op \in {"ShareUpdate", "TagsUpdate"} /\ call.args.opts = Nil

C5_LocalPreconditionFailure ==
  PreconditionFails =>
    /\ Returned
    /\ sent = <<>>
    /\ resp = Nil
    /\ ret.err.kind = "local"
    /\ ret.result = Nil

C5_Witness ==
  /\ Returned
  /\ call.op = "ShareCreate"
  /\ call.args.opts # Nil
  /\ call.args.opts.v.FileID = Nil /\ call.args.opts.v.AlbumID = Nil
  /\ sent = <<>>
  /\ ret.err = LocalErr("either FileID or AlbumID is required")

\* C6: Share.Create sends a request only when exactly one of FileID and
\* AlbumID is set; with both set, as with neither, it returns a local error
\* and sends nothing.
ExactlyOneTarget(o) == o # Nil /\ ((o.v.FileID = Nil) # (o.v.AlbumID = Nil))

C6_ExactlyOneTarget ==
  call.op = "ShareCreate" =>
    /\ sent # <<>> => ExactlyOneTarget(call.args.opts)
    /\ ~ExactlyOneTarget(call.args.opts)
         => Returned /\ sent = <<>> /\ ret.err.kind = "local"

\* C7: no method returns a nil result together with a nil error, whatever the
\* server answers; a 2xx response with an empty body included (Albums.List and
\* Tags.List never return (nil, nil)).  Read in the claim's favour: a non-nil
\* pointer to a zero value counts as a result here.
ListOps == {"AlbumsList", "TagsList"}

C7_NoAmbiguousSuccess ==
  (Returned /\ ret.err = NoErr) => ret.result # Nil

\* the 2xx body carries no list for the list method op to return
NoList(b, op) ==
  \/ b = EmptyBody
  \/ b = Doc(JNull)
  \/ /\ op = "AlbumsList"
     /\ b.t = "json" /\ b.v.t = "obj"
     /\ ("albums" \notin DOMAIN b.v.f \/ b.v.f["albums"] = JNull)

\* Where the code does return (nil, nil): exactly from Albums.List and
\* Tags.List on a 2xx response that carries no list; the methods returning a
\* pointer always return a non-nil one with a nil error.
NilSuccessOnlyFromLists ==
  (Returned /\ ret.err = NoErr) =>
    /\ GotResponse /\ Is2xx(resp.status)
    /\ call.op \notin ListOps => ret.result # Nil
    /\ call.op \in ListOps => (ret.result = Nil <=> NoList(resp.body, call.op))

\* C8: once the caller's context is cancelled before the round trip has
\* completed, the invocation goes on to return (it never waits on anything
\* that cancellation does not end), and what it returns is a local error with
\* no result, never an *APIError and never a success; Files.Upload included.
CancelledBeforeResponse == ctx = "cancelled" /\ resp = Nil

C8_CancelledCallReturnsLocalError ==
  /\ (InCall /\ CancelledBeforeResponse) => ENABLED Next
  /\ (Returned /\ CancelledBeforeResponse)
       => ret.err.kind = "local" /\ ret.result = Nil

\* C9: an invocation hands at most one request to the network, and a failure
\* of that one call (no response, a body that cannot be read, a status outside
\* [200,300), a body that does not decode) is returned as a non-nil error with
\* a nil result.
DecodeFails ==
  IF call.via = "upload"
  THEN ~Unmarshal(resp.body, TypeOf("UploadResponse"), Zero(TypeOf("UploadResponse"))).ok
  ELSE /\ resp.body # EmptyBody
       /\ ~Unmarshal(resp.body, TypeOf(call.dest), Zero(TypeOf(call.dest))).ok
CallFailed ==
  \/ resp = Nil
  \/ resp.read = "failed"
  \/ ~Is2xx(resp.status)
  \/ DecodeFails

C9_FireOnce ==
  /\ Len(sent) <= 1
  /\ (Returned /\ sent # <<>> /\ CallFailed) => ret.err # NoErr /\ ret.result = Nil

C9_Witness ==
  /\ Returned
  /\ call.op = "FilesBatchDelete"
  /\ Len(sent) = 1
  /\ resp = Nil
  /\ ctx = "active"
  /\ ret = [result |-> Nil, err |-> LocalErr("request failed")]

\* C10: for a status code in [200,300) read by Client.request with a non-nil
\* destination, an empty body gives a nil error with the destination at its zero
\* value, and a non-empty JSON body that fits the destination gives a nil error
\* with the destination holding the parsed value.
\* what Client.request left in the destination, seen through the result
Destination ==
  CASE call.op = "AlbumsList" -> [albums |-> ret.result]
    [] call.op = "TagsList" -> ret.result
    [] OTHER -> ret.result.v
AlbumBody == Doc(Obj2("name", JStr("Vacation Photos 2024"), "description", JStr("Trip")))

C10_SuccessDecoding ==
  (Returned /\ GotResponse /\ call.via = "request" /\ call.dest # "nil"
   /\ Is2xx(resp.status))
    => LET ty == TypeOf(call.dest)
           u == Unmarshal(resp.body, ty, Zero(ty))
       IN /\ resp.body = EmptyBody
               => ret.err = NoErr /\ Destination = Zero(ty)
          /\ (resp.body # EmptyBody /\ u.ok)
               => ret.err = NoErr /\ Destination = u.val
          /\ (resp.body = AlbumBody /\ call.dest = "Album")
               => /\ ret.err = NoErr
                  /\ ret.result.v.name = "Vacation Photos 2024"
                  /\ ret.result.v.description = "Trip"
                  /\ ret.result.v.id = 0

C10_Witness ==
  /\ Returned /\ GotResponse
  /\ call.op = "AlbumsGet"
  /\ resp.status = 299
  /\ resp.body = AlbumBody
  /\ ret.err = NoErr
  /\ ret.result.v.name = "Vacation Photos 2024"

\* C11: the multipart body Files.Upload sends holds exactly one file part,
\* named "file", with the caller's filename ("image.jpg" when the options are
\* nil or name none) and exactly the bytes of the input stream, followed by
\* one text part per non-empty extra field (the description) and by no part
\* for an empty one.
UploadSent == call.op = "FilesUpload" /\ sent # <<>>
FileParts(parts) == {i \in DOMAIN parts : parts[i].filename # ""}
PartNamed(parts, n) == {i \in DOMAIN parts : parts[i].name = n}

C11_UploadParts ==
  UploadSent =>
    LET o == call.args.opts
        parts == sent[1].body.parts
        described == o # Nil /\ o.v.Description # ""
    IN /\ sent[1].body.t = "multipart"
       /\ FileParts(parts) = {1}
       /\ parts[1].name = "file"
       /\ parts[1].filename = IF o = Nil \/ o.v.Filename = ""
                              THEN "image.jpg" ELSE o.v.Filename
       /\ parts[1].content = call.args.stream
       /\ \A i \in DOMAIN parts : i > 1 => parts[i].content # ""
       /\ Cardinality(PartNamed(parts, "description")) = IF described THEN 1 ELSE 0
       /\ described => parts[2].content = o.v.Description
       /\ Len(parts) <= 2

C11_Witness ==
  /\ UploadSent
  /\ call.args.stream = <<1, 2, 3>>
  /\ call.args.opts = Ptr([Filename |-> "a.jpg", Description |-> "Trip", AlbumID |-> Nil])
  /\ sent[1].body.parts =
       << [name |-> "file", filename |-> "a.jpg", content |-> <<1, 2, 3>>],
          [name |-> "description", filename |-> "", content |-> "Trip"] >>

\* C12: when UploadOptions.AlbumID is non-nil, the request Files.Upload sends
\* carries the album id as an extra form field.
C12_UploadSendsAlbumID ==
  (UploadSent /\ call.args.opts # Nil /\ call.args.opts.v.AlbumID # Nil) =>
    \E i \in DOMAIN sent[1].body.parts :
      /\ sent[1].body.parts[i].filename = ""
      /\ sent[1].body.parts[i].content = Itoa(call.args.opts.v.AlbumID.v)

\* the invocation in progress was given a zero identifier or an empty id list
ZeroIdentifier ==
  \/ /\ call.op \in {"FilesDelete", "FilesMove", "TrashRestore", "TrashPermanentDelete"}
     /\ call.args.fileID = 0
  \/ /\ call.op \in {"AlbumsGet", "AlbumsDelete"}
     /\ call.args.albumID = 0
  \/ /\ call.op \in {"TagsTagFile", "TagsUntagFile"}
     /\ (call.args.fileID = 0 \/ call.args.tagID = 0)
  \/ /\ call.op = "TagsGetFiles"
     /\ call.args.tagID = 0
  \/ /\ call.op \in {"FilesBatchDelete", "FilesMoveMany", "TrashRestoreMany"}
     /\ (call.args.fileIDs = Nil \/ call.args.fileIDs.v = <<>>)

\* C13 as stated: an operation called with a zero identifier or an empty id
\* list returns a local error and performs no network call.
C13_IdentifiersValidated ==
  ZeroIdentifier => Returned /\ sent = <<>> /\ ret.err.kind = "local"

\* a local error that comes from the transport: no response, an unreadable
\* body, or a 2xx body that does not decode
TransportOrDecodeFailure ==
  \/ resp = Nil
  \/ resp.read = "failed"
  \/ Is2xx(resp.status) /\ DecodeFails

\* C13, amended: no operation validates an identifier locally.  Called with a
\* zero identifier or an empty (or nil) id list it sends its one request all
\* the same, with the 0 in the path or body and the list as [] (null for a nil
\* slice), and what it returns is decided by the server's answer; a local error
\* comes only from the transport or the decoding.
C13_IdentifiersSentUnchecked ==
  ZeroIdentifier =>
    /\ call.via = "request"
    /\ Len(sent) = 1
    /\ (call.op = "FilesDelete") => sent[1].url = client.BaseURL \o "/api/files/0"
    /\ (call.op = "AlbumsGet") => sent[1].url = client.BaseURL \o "/api/albums/0"
    /\ (call.op = "TrashRestore") => sent[1].url = client.BaseURL \o "/api/trash/0/restore"
    /\ (call.op \in {"FilesBatchDelete", "TrashRestoreMany"}) =>
         sent[1].body = Doc(Obj1("file_ids", IF call.args.fileIDs = Nil
                                              THEN JNull ELSE JArr(<<>>)))
    /\ (call.op \in {"TagsTagFile", "TagsUntagFile"}) =>
         /\ sent[1].body.v.f["file_id"] = JNum(call.args.fileID)
         /\ sent[1].body.v.f["tag_id"] = JNum(call.args.tagID)
    /\ (Returned /\ ret.err.kind = "local") => TransportOrDecodeFailure

C13_Witness ==
  /\ Returned /\ GotResponse
  /\ call.op = "FilesDelete"
  /\ call.args.fileID = 0
  /\ sent = <<requestBuild(client, "DELETE", "/api/files/0", Nil)>>
  /\ resp.status = 404
  /\ IsNotFound(ret.err)

\* the invocation in progress was given an empty required string
EmptyRequiredString ==
  \/ call.op = "FilesUploadFromURL" /\ call.args.imageURL = ""
  \/ call.op = "ShareAccess" /\ call.args.token = ""
  \/ call.op = "ShareVerifyPassword"
       /\ (call.args.token = "" \/ call.args.password = "")

\* C14 as stated: an empty source URL, an empty token and an empty password
\* are rejected with a local error and no network call.
C14_StringsValidated ==
  EmptyRequiredString => Returned /\ sent = <<>> /\ ret.err.kind = "local"

\* C14, amended: Files.UploadFromURL, Share.Access and Share.VerifyPassword
\* validate none of their string arguments.  An empty source URL is sent as
\* {"url":""}, an empty token gives the path /api/s/ (or /api/s//verify), an
\* empty password is sent as {"password":""}; the one request is made and the
\* result is decided by the server's answer.
C14_StringsSentUnchecked ==
  EmptyRequiredString =>
    /\ call.via = "request"
    /\ Len(sent) = 1
    /\ (call.op = "FilesUploadFromURL") =>
         sent[1].body = Doc(Obj1("url", JStr("")))
    /\ (call.op = "ShareAccess") => sent[1].url = client.BaseURL \o "/api/s/"
    /\ (call.op = "ShareVerifyPassword") =>
         /\ sent[1].url = client.BaseURL \o "/api/s/" \o call.args.token \o "/verify"
         /\ sent[1].body = Doc(Obj1("password", JStr(call.args.password)))
    /\ (Returned /\ ret.err.kind = "local") => TransportOrDecodeFailure

C14_Witness ==
  /\ Returned /\ GotResponse
  /\ call.op = "ShareVerifyPassword"
  /\ call.args = [token |-> "", password |-> ""]
  /\ sent[1].url = "https://f-image.com/api/s//verify"
  /\ sent[1].body = Doc(Obj1("password", JStr("")))
  /\ resp.status = 400
  /\ IsBadRequest(ret.err)

(***************************************************************************)
(* Concurrent invocations on one Client.  Each goroutine that calls a      *)
(* method has its own request, response and result (locals of              *)
(* Client.request and Client.uploadMultipart); the Client is what they     *)
(* share.  Under ConcSpec the variables pc, call, sent, resp and ret hold   *)
(* one value per goroutine.                                                *)
(***************************************************************************)
\* the number of goroutines calling into the client
NProcs == 2
Procs == 1..NProcs

\* invocations as the services hand them to the transport
ConcCalls ==
  { [op |-> "AlbumsList", via |-> "request", method |-> "GET",
     path |-> "/api/albums", body |-> Nil, dest |-> "AlbumsListResponse"],
    [op |-> "AlbumsGet", via |-> "request", method |-> "GET",
     path |-> "/api/albums/" \o Itoa(MaxID), body |-> Nil, dest |-> "Album"],
    [op |-> "FilesBatchDelete", via |-> "request", method |-> "POST",
     path |-> "/api/files/batch-delete",
     body |-> Marshal({FInts("file_ids", Ptr(<<1>>))}), dest |-> "BatchDeleteResponse"],
    [op |-> "FilesUpload", via |-> "upload", method |-> "POST",
     path |-> "/api/files/upload", body |-> [stream |-> <<1>>], dest |-> "UploadResponse"] }
ConcStatuses == {200, 404}
ConcBodies == {EmptyBody, Doc(Obj1("error", JStr("not found")))}

\* the request goroutine p's call c hands to HTTPClient.Do
ConcRequest(c) ==
  IF c.via = "upload"
  THEN multipartBuild(client, c.path, c.body.stream, "image.jpg", <<>>, [k \in {} |-> ""])
  ELSE requestBuild(client, c.method, c.path, c.body)

ConcInit ==
  /\ client \in {NewClient(t) : t \in ApiTokens}
  /\ pc = [p \in Procs |-> "idle"]
  /\ call = [p \in Procs |-> NoCall]
  /\ ctx = "active"
  /\ reader = NoReader
  /\ buf = <<>>
  /\ sent = [p \in Procs |-> <<>>]
  /\ resp = [p \in Procs |-> Nil]
  /\ ret = [p \in Procs |-> Nil]

\* goroutine p calls a method: the request is built and handed to Do
ConcInvoke(p) ==
  /\ pc[p] = "idle"
  /\ \E c \in ConcCalls :
       /\ call' = [call EXCEPT ![p] = c]
       /\ sent' = [sent EXCEPT ![p] = <<ConcRequest(c)>>]
  /\ pc' = [pc EXCEPT ![p] = "inflight"]
  /\ UNCHANGED <<client, ctx, reader, buf, resp, ret>>

\* Do returns p's response and io.ReadAll reads its body
ConcDoResponse(p) ==
  /\ pc[p] = "inflight"
  /\ \E status \in ConcStatuses, body \in ConcBodies :
       resp' = [resp EXCEPT ![p] = [status |-> status, body |-> body, read |-> "ok"]]
  /\ pc' = [pc EXCEPT ![p] = "reading"]
  /\ UNCHANGED <<client, call, ctx, reader, buf, sent, ret>>

\* mutant: the body is decoded from a response buffer the calls share
ConcFinish_SharedBuffer(p) ==
  /\ pc[p] = "reading"
  /\ \E q \in Procs :
       /\ resp[q] # Nil
       /\ ret' = [ret EXCEPT ![p] = methodReturn(call[p], resp[q].status, resp[q].body)]
  /\ pc' = [pc EXCEPT ![p] = "done"]
  /\ UNCHANGED <<client, call, ctx, reader, buf, sent, resp>>

\* the status check and the decoding of p's response, and p's return
ConcFinish(p) ==
  /\ pc[p] = "reading"
  /\ ret' = [ret EXCEPT ![p] = methodReturn(call[p], resp[p].status, resp[p].body)]
  /\ pc' = [pc EXCEPT ![p] = "done"]
  /\ UNCHANGED <<client, call, ctx, reader, buf, sent, resp>>

\* p's caller takes the result
ConcReturn(p) ==
  /\ pc[p] = "done"
  /\ pc' = [pc EXCEPT ![p] = "idle"]
  /\ call' = [call EXCEPT ![p] = NoCall]
  /\ sent' = [sent EXCEPT ![p] = <<>>]
  /\ resp' = [resp EXCEPT ![p] = Nil]
  /\ ret' = [ret EXCEPT ![p] = Nil]
  /\ UNCHANGED <<client, ctx, reader, buf>>

ConcNext ==
  \E p \in Procs :
    \/ ConcInvoke(p)
    \/ ConcDoResponse(p)
    \/ ConcFinish(p)
    \/ ConcReturn(p)

ConcSpec == ConcInit /\ [][ConcNext]_vars

\* the request a call sends, and what it returns for a response, when it is
\* the only call on a client fresh from NewClient
AloneRequest(c) ==
  LET fresh == NewClient("fimg_live_token")
      h == [x \in {"Authorization", "User-Agent", "Accept"} \cup
                  (IF c.body # Nil THEN {"Content-Type"} ELSE {}) |->
              CASE x = "Authorization" -> "Bearer fimg_live_token"
                [] x = "User-Agent" -> "f-image-go/1.0.0"
                [] x = "Accept" -> "application/json"
                [] x = "Content-Type" ->
                     IF c.via = "upload"
                     THEN "multipart/form-data; boundary=" \o Boundary
                     ELSE "application/json"]
  IN [method |-> c.method, url |-> fresh.BaseURL \o c.path, header |-> h,
      body |-> IF c.via = "upload"
               THEN [t |-> "multipart", boundary |-> Boundary,
                     parts |-> <<[name |-> "file", filename |-> "image.jpg",
                                  content |-> c.body.stream]>>]
               ELSE c.body]
AloneOutcome(c, r) == methodReturn(c, r.status, r.body)

\* C15: however the calls of several goroutines on one Client interleave, no
\* call changes the Client, and each call sends the request and returns the
\* outcome it would if it ran alone and got the same response.
C15_ConcurrentCallsIndependent ==
  /\ client = NewClient("fimg_live_token")
  /\ \A p \in Procs :
       /\ pc[p] # "idle" => sent[p] = <<AloneRequest(call[p])>>
       /\ pc[p] = "done" => ret[p] = AloneOutcome(call[p], resp[p])

C15_Witness ==
  /\ pc[1] = "done" /\ pc[2] = "reading"
  /\ call[1].op = "AlbumsGet" /\ call[2].op = "FilesUpload"
  /\ resp[1].status = 404 /\ resp[2].status = 200
  /\ IsNotFound(ret[1].err)
  /\ ret[2] = Nil

(***************************************************************************)
(* Construction: NewClient and its options.  A URL argument is written as  *)
(* a stem that ends with no slash plus a number of trailing slashes, so    *)
(* that strings.TrimSuffix can be computed on it.  A ClientOption closure  *)
(* is the record of its constructor and argument.  WithHTTPClient is given  *)
(* a *http.Client: the caller's http.Client objects live in call.args.heap *)
(* under their addresses, and the client's HTTPClient field is either the  *)
(* object NewClient allocated, which nothing else refers to, or [ref |-> h]*)
(* for the caller's object at h.                                           *)
(***************************************************************************)
\* a base URL argument ends with at most MaxSlashes slashes
MaxSlashes == 2
\* NewClient is given at most MaxOpts options
MaxOpts == 3

RECURSIVE Slashes(_)
Slashes(n) == IF n = 0 THEN "" ELSE "/" \o Slashes(n - 1)
URLString(u) == u.stem \o Slashes(u.slashes)
BaseURLArgs == {[stem |-> "https://api.example.com", slashes |-> n] : n \in 0..MaxSlashes}

\* strings.TrimSuffix(s, "/"): s without one trailing "/", if it has one
TrimSuffix(u) == IF u.slashes > 0 THEN [u EXCEPT !.slashes = u.slashes - 1] ELSE u

WithBaseURL(baseURL) == [opt |-> "WithBaseURL", baseURL |-> baseURL]
WithHTTPClient(httpClient) == [opt |-> "WithHTTPClient", httpClient |-> httpClient]
WithTimeout(timeout) == [opt |-> "WithTimeout", timeout |-> timeout]
WithUserAgent(userAgent) == [opt |-> "WithUserAgent", userAgent |-> userAgent]

\* the http.Client objects of the caller, as they are before NewClient
CallerClients == [h0 |-> [Timeout |-> 0], h10 |-> [Timeout |-> 10]]

ClientOptions ==
  {WithBaseURL(u) : u \in BaseURLArgs}
  \cup {WithHTTPClient(h) : h \in DOMAIN CallerClients}
  \cup {WithTimeout(t) : t \in {5, 60}}
  \cup {WithUserAgent("my-app/2.0")}
OptionLists == UNION {[1..n -> ClientOptions] : n \in 0..MaxOpts}

\* c.HTTPClient.Timeout, read through the pointer
HTTPClientTimeout(c, heap) ==
  IF "ref" \in DOMAIN c.HTTPClient
  THEN heap[c.HTTPClient.ref].Timeout
  ELSE c.HTTPClient.Timeout

\* mutant: a replaced HTTP client keeps the timeout already configured
ApplyOption_KeepTimeout(m, o) ==
  CASE o.opt = "WithBaseURL" ->
         [m EXCEPT !.c.BaseURL = URLString(TrimSuffix(o.baseURL))]
    [] o.opt = "WithHTTPClient" ->
         [m EXCEPT !.c.HTTPClient = [ref |-> o.httpClient],
                   !.heap[o.httpClient].Timeout = HTTPClientTimeout(m.c, m.heap)]
    [] o.opt = "WithTimeout" ->
         IF "ref" \in DOMAIN m.c.HTTPClient
         THEN [m EXCEPT !.heap[m.c.HTTPClient.ref].Timeout = o.timeout]
         ELSE [m EXCEPT !.c.HTTPClient.Timeout = o.timeout]
    [] o.opt = "WithUserAgent" -> [m EXCEPT !.c.userAgent = o.userAgent]

\* mutant: WithHTTPClient gives the client a copy of the caller's http.Client
ApplyOption_CopiesClient(m, o) ==
  CASE o.opt = "WithBaseURL" ->
         [m EXCEPT !.c.BaseURL = URLString(TrimSuffix(o.baseURL))]
    [] o.opt = "WithHTTPClient" ->
         [m EXCEPT !.c.HTTPClient = [Timeout |-> m.heap[o.httpClient].Timeout]]
    [] o.opt = "WithTimeout" ->
         IF "ref" \in DOMAIN m.c.HTTPClient
         THEN [m EXCEPT !.heap[m.c.HTTPClient.ref].Timeout = o.timeout]
         ELSE [m EXCEPT !.c.HTTPClient.Timeout = o.timeout]
    [] o.opt = "WithUserAgent" -> [m EXCEPT !.c.userAgent = o.userAgent]

\* opt(c): what the closure of an option does to the client c and, through
\* c.HTTPClient, to the caller's http.Client objects; m is [c, heap]
ApplyOption(m, o) ==
  CASE o.opt = "WithBaseURL" ->
         [m EXCEPT !.c.BaseURL = URLString(TrimSuffix(o.baseURL))]
    [] o.opt = "WithHTTPClient" ->
         [m EXCEPT !.c.HTTPClient = [ref |-> o.httpClient]]
    [] o.opt = "WithTimeout" ->
         IF "ref" \in DOMAIN m.c.HTTPClient
         THEN [m EXCEPT !.heap[m.c.HTTPClient.ref].Timeout = o.timeout]
         ELSE [m EXCEPT !.c.HTTPClient.Timeout = o.timeout]
    [] o.opt = "WithUserAgent" -> [m EXCEPT !.c.userAgent = o.userAgent]

\* NewClient(apiToken, opts...) has built the struct with its defaults
BuildInit ==
  /\ client \in {NewClient(t) : t \in ApiTokens}
  /\ pc = "constructing"
  /\ call \in {[op |-> "NewClient", via |-> "none", dest |-> "nil",
                args |-> [opts |-> l, applied |-> 0, heap |-> CallerClients]] :
                 l \in OptionLists}
  /\ ctx = "active"
  /\ reader = NoReader
  /\ buf = <<>>
  /\ sent = <<>>
  /\ resp = Nil
  /\ ret = Nil

\* one turn of the loop over opts
NewClientApply ==
  /\ pc = "constructing"
  /\ call.args.applied < Len(call.args.opts)
  /\ LET m == ApplyOption([c |-> client, heap |-> call.args.heap],
                          call.args.opts[call.args.applied + 1])
     IN /\ client' = m.c
        /\ call' = [call EXCEPT !.args.applied = call.args.applied + 1,
                                !.args.heap = m.heap]
  /\ UNCHANGED <<pc, ctx, reader, buf, sent, resp, ret>>

\* the services are set and the client is returned
NewClientReturn ==
  /\ pc = "constructing"
  /\ call.args.applied = Len(call.args.opts)
  /\ pc' = "built"
  /\ UNCHANGED <<client, call, ctx, reader, buf, sent, resp, ret>>

\* Albums.List on the client just built, up to HTTPClient.Do
BuiltAlbumsList ==
  /\ pc = "built"
  /\ sent' = Append(sent, requestBuild(client, "GET", "/api/albums", Nil))
  /\ pc' = "inflight"
  /\ UNCHANGED <<client, call, ctx, reader, buf, resp, ret>>

BuildNext == NewClientApply \/ NewClientReturn \/ BuiltAlbumsList

BuildSpec == BuildInit /\ [][BuildNext]_vars

Built == pc \in {"built", "inflight"}
OptsGiven == call.args.opts
\* the place of the last option of one of the kinds in the list; 0 if none
LastOf(kinds) ==
  IF \E i \in DOMAIN OptsGiven : OptsGiven[i].opt \in kinds
  THEN CHOOSE i \in DOMAIN OptsGiven :
         /\ OptsGiven[i].opt \in kinds
         /\ \A j \in DOMAIN OptsGiven : j > i => OptsGiven[j].opt \notin kinds
  ELSE 0
\* the timeout in effect on the client
EffectiveTimeout == HTTPClientTimeout(client, call.args.heap)
\* the place of the WithHTTPClient in force when option j is applied; 0 if none
Governing(j) ==
  IF \E k \in 1..(j - 1) : OptsGiven[k].opt = "WithHTTPClient"
  THEN CHOOSE k \in 1..(j - 1) :
         /\ OptsGiven[k].opt = "WithHTTPClient"
         /\ \A l \in (k + 1)..(j - 1) : OptsGiven[l].opt # "WithHTTPClient"
  ELSE 0
\* the places of the WithTimeout options applied while the client held h
WrittenTo(h) ==
  {j \in DOMAIN OptsGiven :
     /\ OptsGiven[j].opt = "WithTimeout"
     /\ Governing(j) # 0
     /\ OptsGiven[Governing(j)].httpClient = h}
\* the Timeout the caller's object h is expected to hold after NewClient
ExpectedTimeoutOf(h) ==
  IF WrittenTo(h) = {} THEN CallerClients[h].Timeout
  ELSE OptsGiven[CHOOSE j \in WrittenTo(h) : \A l \in WrittenTo(h) : l <= j].timeout

\* C16 as stated: on the client NewClient returns, each configuration field
\* has the value of the last option given for it; the timeout is that of the
\* last WithTimeout wherever WithHTTPClient stands relative to it.
C16_LastOptionWins ==
  Built =>
    /\ LET i == LastOf({"WithTimeout"})
       IN EffectiveTimeout =
            IF i = 0 THEN EffectiveTimeout ELSE OptsGiven[i].timeout
    /\ LET i == LastOf({"WithUserAgent"})
       IN client.userAgent =
            IF i = 0 THEN "f-image-go/" \o Version ELSE OptsGiven[i].userAgent
    /\ LET i == LastOf({"WithBaseURL"})
       IN client.BaseURL =
            IF i = 0 THEN DefaultBaseURL
            ELSE URLString(TrimSuffix(OptsGiven[i].baseURL))

\* C16, amended: the options are applied in the order given.  The base URL
\* and the user agent are those of the last WithBaseURL (less one trailing
\* slash) and the last WithUserAgent, the defaults if there is none.  The
\* timeout belongs to the HTTP client: WithHTTPClient replaces the client
\* together with its timeout, so the timeout in effect is that of whichever
\* of WithTimeout and WithHTTPClient was applied last (for WithHTTPClient the
\* timeout of the client it brings), DefaultTimeout if neither was given; a
\* WithTimeout decides it only when no WithHTTPClient follows it.
C16_LastOptionWinsPerField ==
  Built =>
    /\ LET i == LastOf({"WithTimeout", "WithHTTPClient"})
       IN EffectiveTimeout =
            IF i = 0 THEN DefaultTimeout
            ELSE IF OptsGiven[i].opt = "WithTimeout" THEN OptsGiven[i].timeout
            ELSE ExpectedTimeoutOf(OptsGiven[i].httpClient)
    /\ LET i == LastOf({"WithUserAgent"})
       IN client.userAgent =
            IF i = 0 THEN "f-image-go/" \o Version ELSE OptsGiven[i].userAgent
    /\ LET i == LastOf({"WithBaseURL"})
       IN client.BaseURL =
            IF i = 0 THEN DefaultBaseURL
            ELSE URLString(TrimSuffix(OptsGiven[i].baseURL))
    /\ client.apiToken \in ApiTokens

C16_Witness ==
  /\ Built
  /\ OptsGiven = <<WithTimeout(60), WithHTTPClient("h10"),
                   WithBaseURL([stem |-> "https://api.example.com", slashes |-> 1])>>
  /\ EffectiveTimeout = 10
  /\ client.BaseURL = "https://api.example.com"

\* the string s ends with "/"
EndsWithSlash(s) ==
  \E u \in BaseURLArgs : u.slashes > 0 /\ URLString(u) = s

\* C17: the base URL of a client built with WithBaseURL(u) does not end with
\* "/", for every u, so that base URL + path has no doubled slash where they
\* join.
C17_BaseURLTrimmed ==
  Built =>
    /\ ~EndsWithSlash(client.BaseURL)
    /\ sent # <<>> =>
         \A u \in BaseURLArgs :
           u.slashes > 0 => sent[1].url # URLString(u) \o "/api/albums"

\* C18: an optional given as a pointer is transmitted exactly when the
\* pointer is non-nil, whatever it points to.  Share.Update sends password,
\* max_views and is_active for the non-nil fields (a pointer to "" or to false
\* included) and omits the key of a nil one; Files.Move and Files.MoveMany
\* send no album_id for a nil album id; Files.List sends album_id=0 for a
\* pointer to 0.
Sends(key, p, v) ==
  LET f == sent[1].body.v.f
  IN IF p = Nil THEN key \notin DOMAIN f ELSE key \in DOMAIN f /\ f[key] = v

C18_PointerOptionals ==
  sent # <<>> =>
    /\ call.op = "ShareUpdate" =>
         LET o == call.args.opts.v
         IN /\ Sends("password", o.Password,
                     IF o.Password = Nil THEN JNull ELSE JStr(o.Password.v))
            /\ Sends("max_views", o.MaxViews,
                     IF o.MaxViews = Nil THEN JNull ELSE JNum(o.MaxViews.v))
            /\ Sends("is_active", o.IsActive,
                     IF o.IsActive = Nil THEN JNull ELSE JBool(o.IsActive.v))
    /\ call.op = "FilesMoveMany" =>
         Sends("album_id", call.args.albumID,
               IF call.args.albumID = Nil THEN JNull ELSE JNum(call.args.albumID.v))
    /\ call.op = "FilesMove" =>
         sent[1].url = client.BaseURL \o "/api/files/" \o Itoa(call.args.fileID) \o "/move"
                       \o (IF call.args.albumID = Nil THEN ""
                           ELSE "?album_id=" \o Itoa(call.args.albumID.v))
    /\ (call.op = "FilesList"
        /\ call.args.opts = Ptr([Page |-> 0, Limit |-> 0, AlbumID |-> Ptr(0)])) =>
         sent[1].url = client.BaseURL \o "/api/files?album_id=0"
    /\ (call.op = "FilesList" /\ call.args.opts # Nil
        /\ call.args.opts.v.AlbumID = Nil /\ call.args.opts.v.Page <= 0
        /\ call.args.opts.v.Limit <= 0) =>
         sent[1].url = client.BaseURL \o "/api/files"

C18_Witness ==
  /\ call.op = "ShareUpdate"
  /\ call.args.opts = Ptr([Password |-> Ptr(""), MaxViews |-> Ptr(0),
                           IsActive |-> Ptr(FALSE)])
  /\ sent # <<>>
  /\ sent[1].body = Doc(JObj([k \in {"password", "max_views", "is_active"} |->
                                CASE k = "password" -> JStr("")
                                  [] k = "max_views" -> JNum(0)
                                  [] k = "is_active" -> JBool(FALSE)]))

\* C19: for Files.BatchDelete, Trash.RestoreMany and Trash.Empty a 2xx answer
\* that reports failed items returns a nil error and a result carrying the
\* counts as the server gave them; an error is returned only when the call
\* itself fails (no response, unreadable body, a status outside [200,300), an
\* undecodable body), and then with a nil result.
BatchOps == {"FilesBatchDelete", "TrashRestoreMany", "TrashEmpty"}

C19_BatchCountsPassThrough ==
  (Returned /\ call.op \in BatchOps) =>
    /\ (GotResponse /\ Is2xx(resp.status) /\ resp.body = BatchReport) =>
         /\ ret.err = NoErr
         /\ ret.result # Nil
         /\ call.op = "FilesBatchDelete" =>
              ret.result.v = [deleted |-> 1, failed |-> 2, message |-> "2 items failed"]
         /\ call.op = "TrashRestoreMany" =>
              ret.result.v = [message |-> "2 items failed", restored |-> 1, failed |-> 2]
         /\ call.op = "TrashEmpty" =>
              /\ ret.result.v.success = FALSE
              /\ ret.result.v.deleted_count = 1
              /\ ret.result.v.failed_count = 2
    /\ ret.err # NoErr => ret.result = Nil /\ CallFailed
    /\ ret.err = NoErr => ~CallFailed

C19_Witness ==
  /\ Returned /\ GotResponse
  /\ call.op = "TrashRestoreMany"
  /\ resp.status = 200
  /\ resp.body = BatchReport
  /\ ret = [result |-> Ptr([message |-> "2 items failed", restored |-> 1, failed |-> 2]),
            err |-> NoErr]

\* C20: requestWithQuery appends "?" and the encoded pairs to the path exactly
\* when there are pairs, and otherwise sends the GET that request sends for
\* the bare path; Files.List, Share.List, Trash.List and Tags.GetFiles add
\* page and limit only for values greater than zero, so that nil options and
\* zero or negative values give a request without a query string.
PagedOps == {"FilesList", "ShareList", "TrashList", "TagsGetFiles"}
PagedPath ==
  CASE call.op = "FilesList" -> "/api/files"
    [] call.op = "ShareList" -> "/api/shares"
    [] call.op = "TrashList" -> "/api/trash"
    [] call.op = "TagsGetFiles" -> "/api/tags/" \o Itoa(call.args.tagID) \o "/files"
\* the pairs expected for the options o, keys in sorted order
Joined(a, b) == IF a = "" THEN b ELSE IF b = "" THEN a ELSE a \o "&" \o b
ExpectedPairs(o) ==
  IF o = Nil THEN ""
  ELSE LET a == IF call.op = "FilesList" /\ o.v.AlbumID # Nil
                THEN "album_id=" \o Itoa(o.v.AlbumID.v) ELSE ""
           l == IF o.v.Limit > 0 THEN "limit=" \o Itoa(o.v.Limit) ELSE ""
           p == IF o.v.Page > 0 THEN "page=" \o Itoa(o.v.Page) ELSE ""
       IN Joined(a, Joined(l, p))

C20_QueryString ==
  (call.op \in PagedOps /\ pc # "idle") =>
    LET q == ExpectedPairs(call.args.opts)
    IN /\ Len(sent) = 1
       /\ q = "" => sent[1] = requestBuild(client, "GET", PagedPath, Nil)
       /\ q # "" => sent[1] = requestBuild(client, "GET", PagedPath \o "?" \o q, Nil)
       /\ sent[1].method = "GET"
       /\ sent[1].body = Nil

C20_Witness ==
  /\ call.op = "TrashList"
  /\ call.args.opts = Ptr([Page |-> -1, Limit |-> -1])
  /\ sent # <<>>
  /\ sent[1].url = "https://f-image.com/api/trash"

(***************************************************************************)
(* The headers of an upload.                                               *)
(***************************************************************************)
\* C21: every request Files.Upload hands to HTTPClient.Do carries exactly
\* four headers: Authorization "Bearer <token>", User-Agent, Accept
\* "application/json", and a Content-Type that is multipart/form-data with
\* the boundary of the body it carries; its Content-Type is never
\* "application/json".
C21_UploadHeaders ==
  UploadSent =>
    \A i \in DOMAIN sent :
      LET h == sent[i].header IN
      /\ DOMAIN h = {"Authorization", "User-Agent", "Accept", "Content-Type"}
      /\ h["Authorization"] = "Bearer " \o client.apiToken
      /\ h["User-Agent"] = client.userAgent
      /\ h["Accept"] = "application/json"
      /\ sent[i].body.t = "multipart"
      /\ h["Content-Type"] = "multipart/form-data; boundary=" \o sent[i].body.boundary
      /\ h["Content-Type"] # "application/json"

\* an upload with a description field has been handed to Do
C21_Witness ==
  /\ UploadSent
  /\ pc = "inflight"
  /\ Len(sent[1].body.parts) = 2
  /\ sent[1].header["Content-Type"] = "multipart/form-data; boundary=f1a2b3"

\* C22: Files.Upload streams its input: the bytes are read once, in order,
\* into the body of the outgoing request, so that the request has been handed
\* to HTTPClient.Do by the time any byte of the input has been read, and the
\* input is never held in memory whole while no request has been made.
C22_UploadStreams ==
  (call.op = "FilesUpload" /\ pc = "copying") =>
    /\ buf \o reader.data = call.args.stream
    /\ buf # <<>> => sent # <<>>

(***************************************************************************)
(* Consecutive calls of Trash.Empty on one client, against a server whose  *)
(* trash is already empty.  Here ret is the list of what the calls made so *)
(* far returned, each with the answer it was given; the other variables    *)
(* are those of the call in progress.                                      *)
(***************************************************************************)
MaxCalls == 3

\* what the server reports when there was nothing to delete
EmptyTrashReport ==
  Doc(JObj([k \in {"success", "message", "deleted_count", "failed_count"} |->
              CASE k = "success" -> JBool(TRUE)
                [] k = "message" -> JStr("Trash is empty")
                [] OTHER -> JNum(0)]))

\* mutant: the client remembers what the previous call returned
TrashEmptyOutcome_Remembered(earlier, status, body) ==
  IF earlier # <<>>
  THEN [result |-> earlier[Len(earlier)].result, err |-> earlier[Len(earlier)].err]
  ELSE serviceReturn("TrashEmpty", requestFinish(status, body, "DeleteResult"))

\* TrashService.Empty, from the response to the return; no field of the
\* client or of the service is read
TrashEmptyOutcome(earlier, status, body) ==
  serviceReturn("TrashEmpty", requestFinish(status, body, "DeleteResult"))

TrashInit ==
  /\ client \in {NewClient(t) : t \in ApiTokens}
  /\ pc = "idle"
  /\ call = NoCall
  /\ ctx = "active"
  /\ reader = NoReader
  /\ buf = <<>>
  /\ sent = <<>>
  /\ resp = Nil
  /\ ret = <<>>

TrashEmptyCall ==
  \E cx \in Ctxs :
    /\ pc = "idle"
    /\ Len(ret) < MaxCalls
    /\ pc' = "inflight"
    /\ call' = [op |-> "TrashEmpty", via |-> "request", dest |-> "DeleteResult",
                args |-> Nil]
    /\ ctx' = cx
    /\ sent' = <<requestBuild(client, "DELETE", "/api/trash/empty", Nil)>>
    /\ resp' = Nil
    /\ UNCHANGED <<client, reader, buf, ret>>

\* the server answers, the body is read and the call returns
TrashEmptyAnswered ==
  \E status \in {200, 204, 500}, body \in {EmptyTrashReport, EmptyBody, HTMLBody} :
    /\ pc = "inflight"
    /\ ctx = "active"
    /\ resp' = [status |-> status, body |-> body, read |-> "ok"]
    /\ LET out == TrashEmptyOutcome(ret, status, body) IN
       ret' = Append(ret, [answer |-> Ptr([status |-> status, body |-> body]),
                           result |-> out.result, err |-> out.err])
    /\ pc' = "idle"
    /\ UNCHANGED <<client, call, ctx, reader, buf, sent>>

\* HTTPClient.Do fails (the context is cancelled, or the network is down)
TrashEmptyFailed ==
  /\ pc = "inflight"
  /\ ret' = Append(ret, [answer |-> Nil, result |-> Nil,
                         err |-> LocalErr("request failed")])
  /\ pc' = "idle"
  /\ UNCHANGED <<client, call, ctx, reader, buf, sent, resp>>

TrashNext == TrashEmptyCall \/ TrashEmptyAnswered \/ TrashEmptyFailed

TrashSpec == TrashInit /\ [][TrashNext]_vars

\* the server said, with a 2xx status, that nothing was deleted
SaidEmpty(r) ==
  /\ r.answer # Nil
  /\ Is2xx(r.answer.v.status)
  /\ r.answer.v.body = EmptyTrashReport

\* C23: in any run of consecutive Trash.Empty calls on one client against an
\* already-empty trash, every call the server answers with its empty report
\* returns DeletedCount = 0 and FailedCount = 0 with a nil error; what a call
\* returns is determined by the answer it got alone (two calls given the same
\* answer return the same, whatever the calls before them returned); every
\* call sends the same request, and the client is as NewClient made it.
C23_EmptyIdempotent ==
  /\ \A i \in DOMAIN ret :
       SaidEmpty(ret[i]) =>
         /\ ret[i].err = NoErr
         /\ ret[i].result # Nil
         /\ ret[i].result.v.deleted_count = 0
         /\ ret[i].result.v.failed_count = 0
  /\ \A i, j \in DOMAIN ret :
       ret[i].answer = ret[j].answer =>
         ret[i].result = ret[j].result /\ ret[i].err = ret[j].err
  /\ sent # <<>> => sent = <<requestBuild(NewClient(client.apiToken), "DELETE",
                                          "/api/trash/empty", Nil)>>
  /\ client = NewClient(client.apiToken)

\* three calls have returned: the first failed with an *APIError, the two
\* after it were told the trash is empty
C23_Witness ==
  /\ Len(ret) = 3
  /\ ret[1].err.kind = "api"
  /\ SaidEmpty(ret[2]) /\ SaidEmpty(ret[3])
  /\ ret[3].result.v.deleted_count = 0

(***************************************************************************)
(* Creating an album against a server that echoes what it received.        *)
(***************************************************************************)
Echoed ==
  /\ Returned /\ GotResponse
  /\ call.op = "AlbumsCreate"
  /\ Is2xx(resp.status)
  /\ resp.body = sent[1].body

\* C24 (as stated): for every non-empty Name and every Description, when the
\* server echoes the name and the description it received, Albums.Create
\* returns an Album with the caller's Name and Description.
C24_CreateRoundTrip ==
  Echoed =>
    /\ ret.err = NoErr
    /\ ret.result.v.name = call.args.opts.v.Name
    /\ ret.result.v.description = call.args.opts.v.Description

\* C24 (amended): the Album returned holds the caller's Name and Description
\* coerced to valid UTF-8: the same strings when they are valid UTF-8 (an
\* empty Description is left out of the request and comes back empty), and
\* with U+FFFD in place of every invalid byte otherwise.
C24_CreateRoundTripUTF8 ==
  Echoed =>
    LET o == call.args.opts.v IN
    /\ ret.err = NoErr
    /\ ret.result.v.name = ToValidUTF8(o.Name)
    /\ ret.result.v.description = ToValidUTF8(o.Description)
    /\ o.Name # Latin1Name => ret.result.v.name = o.Name
    /\ o.Description # Latin1Name => ret.result.v.description = o.Description
    /\ o.Description = "" <=> "description" \notin DOMAIN sent[1].body.v.f

\* a name with an empty description has made the round trip
C24_Witness ==
  /\ Echoed
  /\ resp.status = 201
  /\ call.args.opts.v.Description = ""
  /\ "description" \notin DOMAIN resp.body.v.f
  /\ ret.result.v.name = "Vacation Photos 2024"
  /\ ret.result.v.description = ""

(***************************************************************************)
(* The order in which Client.request decides its outcome.                  *)
(***************************************************************************)
ViaRequest == Returned /\ call.via = "request"

\* C25: Client.request decides in the order send, read, status check,
\* decode.  Without a response the error is the local "request failed"; with
\* a response whose body cannot be read, the local "failed to read response
\* body"; with a body read and a status outside [200,300), an *APIError, also
\* when the body is no JSON at all or would not decode into the destination;
\* with a 2xx status never an *APIError, and a local "failed to decode
\* response" exactly when the body is non-empty and does not decode into the
\* (non-nil) destination.
C25_StatusBeforeDecode ==
  ViaRequest =>
    /\ Len(sent) = 1
    /\ resp = Nil <=> ret.err = LocalErr("request failed")
    /\ (resp # Nil /\ resp.read = "failed")
         <=> ret.err = LocalErr("failed to read response body")
    /\ (GotResponse /\ ~Is2xx(resp.status)) <=> ret.err.kind = "api"
    /\ (GotResponse /\ Is2xx(resp.status) /\ call.dest # "nil" /\ resp.body # EmptyBody
        /\ ~Unmarshal(resp.body, TypeOf(call.dest), Zero(TypeOf(call.dest))).ok)
         <=> ret.err = LocalErr("failed to decode response")
    /\ ret.err # NoErr => ret.result = Nil

\* a 404 with an HTML body, for a destination the body does not decode into,
\* has been returned as an *APIError
C25_Witness ==
  /\ ViaRequest /\ GotResponse
  /\ call.op = "AlbumsGet"
  /\ resp.status = 404
  /\ resp.body = HTMLBody
  /\ ret.err.kind = "api"
  /\ ret.err.StatusCode = 404

(***************************************************************************)
(* The error predicates over the errors the operations return.             *)
(***************************************************************************)
\* the predicates that hold of an error
PredicatesTrue(err) ==
  {p \in {"IsNotFound", "IsUnauthorized", "IsForbidden", "IsBadRequest", "IsQuotaExceeded"} :
     CASE p = "IsNotFound" -> IsNotFound(err)
       [] p = "IsUnauthorized" -> IsUnauthorized(err)
       [] p = "IsForbidden" -> IsForbidden(err)
       [] p = "IsBadRequest" -> IsBadRequest(err)
       [] OTHER -> IsQuotaExceeded(err)}

C27_ErrorMeansNilResult ==
  Returned => (ret.err # NoErr => ret.result = Nil)

\* Albums.Get was answered 200 with a name and an id of the wrong type: the
\* name was decoded into the destination, the method returned the decode
\* error and no album
C27_Witness ==
  /\ Returned /\ GotResponse
  /\ call.op = "AlbumsGet"
  /\ resp.status = 200
  /\ resp.body = StringIdBody
  /\ requestFinish(resp.status, resp.body, call.dest).val.name = "Nature"
  /\ ret.err = LocalErr("failed to decode response")
  /\ ret.result = Nil

(***************************************************************************)
(* A 2xx response with an empty body.                                      *)
(***************************************************************************)
Empty2xx == Returned /\ GotResponse /\ Is2xx(resp.status) /\ resp.body = EmptyBody

\* C28: answered 2xx with an empty body, Files.Upload returns the local
\* error "failed to decode response" and a nil result, while every method
\* built on Client.request returns a nil error and the zero value of its
\* result (a zero struct, or a nil slice for the methods that return a list);
\* Files.UploadFromURL returns a zero UploadResponse, the type Files.Upload
\* fails to produce.
C28_EmptyBodyTwoTransports ==
  Empty2xx =>
    /\ call.via = "upload"
         => ret = [result |-> Nil, err |-> LocalErr("failed to decode response")]
    /\ call.via = "request"
         => /\ ret.err = NoErr
            /\ ret.result = IF call.op \in ListOps THEN Nil
                            ELSE Ptr(Zero(TypeOf(call.dest)))
    /\ call.op \in {"FilesUpload", "FilesUploadFromURL"} => call.dest = "UploadResponse"

\* Files.Upload has failed on a 200 with an empty body
C28_Witness ==
  /\ Empty2xx
  /\ call.op = "FilesUpload"
  /\ resp.status = 200
  /\ ret.err = LocalErr("failed to decode response")
  /\ ret.result = Nil

(***************************************************************************)
(* The message of an *APIError for bodies without a usable message.        *)
(***************************************************************************)
BothEmptyBody == Doc(Obj2("error", JStr(""), "message", JStr("")))

\* C29: for a response with a status outside [200,300), the Message of the
\* *APIError is: the empty string for an empty body (the raw body, as an empty
\* body does not parse), and so not the status text; the status text for a
\* body of {} or null, or an object whose error and message are both empty;
\* the raw body for a body that is a JSON array or whose error field is not
\* a string.
C29_MessageWithoutText ==
  (Returned /\ GotResponse /\ ~Is2xx(resp.status)) =>
       /\ ret.err.kind = "api"
       /\ resp.body = EmptyBody
            => /\ ret.err.Message = Raw("")
               /\ StatusText(resp.status) # "" => ret.err.Message # Raw(StatusText(resp.status))
       /\ resp.body \in {Doc(EmptyObj), Doc(JNull)}
            => ret.err.Message = Raw(StatusText(resp.status))
       /\ resp.body \in {Doc(JArr(<<>>)), Doc(Obj2("error", JNum(7), "message", JStr("quota")))}
            => ret.err.Message = resp.body
       /\ parseAPIError(resp.status, BothEmptyBody)
            = APIError(resp.status, Raw(StatusText(resp.status)))

\* a 500 with an empty body has been returned with an empty Message
C29_Witness ==
  /\ Returned /\ GotResponse
  /\ resp.status = 500
  /\ resp.body = EmptyBody
  /\ ret.err = APIError(500, Raw(""))

(***************************************************************************)
(* WithTimeout and WithHTTPClient.                                         *)
(***************************************************************************)
\* C30: on the client NewClient returns, and in the caller's http.Client
\* objects after it: a WithTimeout(t) applied while the client holds the
\* caller's h (a WithHTTPClient(h) came before it and no other in between)
\* writes t into h itself, where every user of h sees it; a WithTimeout(t)
\* with a WithHTTPClient(h) after it is discarded, the timeout in effect being
\* the one h holds; an object the caller passed in no such place keeps its
\* own Timeout; and the client has its own http.Client with DefaultTimeout
\* exactly when neither option is given.
C30_TimeoutAliasesCallerClient ==
  Built =>
    LET i == LastOf({"WithTimeout", "WithHTTPClient"})
        g == LastOf({"WithHTTPClient"})
    IN /\ \A h \in DOMAIN CallerClients :
            call.args.heap[h].Timeout = ExpectedTimeoutOf(h)
       /\ g # 0 => /\ client.HTTPClient = [ref |-> OptsGiven[g].httpClient]
                   /\ EffectiveTimeout = call.args.heap[OptsGiven[g].httpClient].Timeout
       /\ (g # 0 /\ i > g) => call.args.heap[OptsGiven[g].httpClient].Timeout
                                = OptsGiven[i].timeout
       /\ (g # 0 /\ i = g /\ WrittenTo(OptsGiven[g].httpClient) = {})
            => EffectiveTimeout = CallerClients[OptsGiven[g].httpClient].Timeout
       /\ g = 0 => /\ call.args.heap = CallerClients
                   /\ client.HTTPClient =
                        [Timeout |-> IF i = 0 THEN DefaultTimeout
                                     ELSE OptsGiven[i].timeout]
       /\ client.HTTPClient = [Timeout |-> DefaultTimeout] <=> i = 0

\* NewClient(token, WithHTTPClient(h10), WithTimeout(5)) has returned: the
\* caller's h10, made with a Timeout of 10, now holds 5
C30_Witness ==
  /\ Built
  /\ OptsGiven = <<WithHTTPClient("h10"), WithTimeout(5)>>
  /\ CallerClients["h10"].Timeout = 10
  /\ call.args.heap["h10"].Timeout = 5
  /\ client.HTTPClient = [ref |-> "h10"]

\* NewClient(token, WithTimeout(5), WithHTTPClient(h10)) has returned: the 5
\* is gone, the timeout in effect is the 10 of h10
C30_WitnessDiscarded ==
  /\ Built
  /\ OptsGiven = <<WithTimeout(5), WithHTTPClient("h10")>>
  /\ EffectiveTimeout = 10
  /\ call.args.heap = CallerClients

====
